---- MODULE Spec2Model ----
(***************************************************************************)
(* Model of the NDI Combined-API tracker session (ndtrack package):        *)
(* NDDataSource / NDTracker / NDCAPITracker / NDPolaris / NDVega, the TCP  *)
(* transport NDSocket, and the background polling thread NDTracker._track. *)
(*                                                                         *)
(* One foreground caller drives the public session calls; each call is a   *)
(* sequence of steps (fg is its call stack of step labels).  The polling   *)
(* threads started by start_tracking() run _track() step by step.  Steps   *)
(* are cut wherever a shared field, a lock or the connection is touched.   *)
(***************************************************************************)
EXTENDS Integers, Sequences, FiniteSets, TLC

\* ---------------------------------------------------------------- bounds
MaxThreads == 2      \* polling threads that may be alive at once
MaxTools   == 1      \* port handles the device reports
MaxFrame   == 2      \* highest frame number the device hands out
MaxStray   == 1      \* stray markers in one frame
NumReaders == 1      \* application threads reading the snapshot
MaxPayload == 2      \* data bytes in one binary reply
MaxBuf     == 4      \* bytes in a buffer handed to the byte-cursor reads
MaxComponents == 2   \* data components in one GBF payload
MaxBxHandles == 2    \* port handles in one BX reply
MaxEntries == 2      \* name=value entries in one ASCII reply
MaxStrayMarkers == 2 \* stray passive markers in one BX reply

\* ------------------------------------------------------------- constants
NoOwner    == 0      \* a threading.Lock() that nobody holds
NumRetries == 3      \* NDSocket.connect(num_retries=3)

Threads == 1..MaxThreads
Fg      == MaxThreads + 1                 \* lock-owner id of the foreground caller
Readers == (MaxThreads + 2)..(MaxThreads + 1 + NumReaders)
Handles == 1..MaxTools

VARIABLES
    connOpen,       \* NDSocket._sock is not None
    linkUp,         \* the socket is really connected to the device
    attempt,        \* NDSocket.connect: index of the transport attempt, 0 outside
    pushing,        \* the device is in streaming mode: it sends frames unasked
    connected,      \* NDDataSource._is_connected
    initialized,    \* NDDataSource._is_initialized
    status,         \* NDDataSource._status: "OK" | "ERROR"
    tracking,       \* NDTracker._is_tracking
    streaming,      \* NDTracker._is_streaming
    recording,      \* NDTracker._is_recording
    paused,         \* NDTracker._is_paused
    recOpen,        \* NDVega._recording6D.is_open
    frame_num,      \* NDDataSource.frame_num
    tools,          \* NDTracker.tools: handle -> frame of its pose, 0 never updated, -1 not in the list
    markers,        \* NDTracker.markers: the stray markers, each stamped with its frame
    commLock,       \* NDTracker._comm_lock: owner or NoOwner
    dataLock,       \* NDTracker.data_lock: owner or NoOwner
    trackingThread, \* NDTracker._tracking_thread: thread id, 0 for None
    tpc,            \* position of each polling thread in _track
    fg,             \* call stack of the foreground caller (step labels, innermost first)
    fgOp,           \* the public call in progress, "idle" if none
    fgPrev,         \* <<call, result>> of the call that returned last
    istage,         \* the exchange _do_initialize is at (index in InitStages), 0 outside
    rpc,            \* position of each reader
    rval,           \* what each reader has read so far
    committed,      \* the snapshot as the last completed update() left it
    sent,           \* the bytes the device writes to the stream during one receive_response()
    arrived,        \* how many of them have reached the socket
    taken,          \* how many of them recv() has handed out
    buffer,         \* receive_response: buffer
    rxpc,           \* position in receive_response, "idle" outside
    cbuf,           \* the bytearray handed to the decoders (they consume it from the front)
    ccall,          \* the decoder call made last: <<name, argument>>
    cret,           \* what that call returned or raised
    reply           \* the CAPIReply under construction: its class and its options

snapVars == <<frame_num, tools, markers>>
rxVars   == <<sent, arrived, taken, buffer, rxpc>>
cVars    == <<cbuf, ccall, cret, reply>>
ioVars   == <<rxVars, cVars>>
connVars == <<connOpen, linkUp, attempt, pushing, ioVars>>
thrVars  == <<trackingThread, tpc>>
fgVars   == <<fg, fgOp, fgPrev>>
rdVars   == <<rpc, rval>>
vars == <<connOpen, linkUp, attempt, pushing, connected, initialized, status, tracking, streaming,
          recording, paused, recOpen, frame_num, tools, markers, commLock,
          dataLock, trackingThread, tpc, fg, fgOp, fgPrev,
          istage, rpc, rval, committed, sent, arrived, taken, buffer, rxpc,
          cbuf, ccall, cret, reply>>

NoPrev == <<"none", "none">>
NoCall == <<"none", 0>>
NoReply == [class |-> "none", options |-> 0]
NoRet  == [ok |-> TRUE, val |-> <<>>]
Snapshot == [frame_num |-> frame_num, tools |-> tools, markers |-> markers]

\* NDTracker.num_tools
num_tools == Cardinality({h \in Handles : tools[h] >= 0})

\* threading.Thread.is_alive() of a polling thread
Alive(t) == tpc[t] \notin {"none", "dead", "crashed"}

\* ------------------------------------------------------------------ Init
\* the session as its constructor leaves it
SessionInit ==
    /\ connOpen = FALSE /\ linkUp = FALSE /\ attempt = 0 /\ pushing = FALSE
    /\ connected = FALSE /\ initialized = FALSE /\ status = "OK"
    /\ tracking = FALSE /\ streaming = FALSE /\ recording = FALSE
    /\ paused = FALSE /\ recOpen = FALSE
    /\ frame_num = 0
    /\ tools = [h \in Handles |-> -1]
    /\ markers = <<>>
    /\ commLock = NoOwner /\ dataLock = NoOwner
    /\ trackingThread = 0
    /\ tpc = [t \in Threads |-> "none"]
    /\ fg = <<>> /\ fgOp = "idle" /\ fgPrev = NoPrev
    /\ istage = 0
    /\ rpc = [r \in Readers |-> "idle"]
    /\ rval = [r \in Readers |-> <<>>]
    /\ committed = [frame_num |-> 0, tools |-> [h \in Handles |-> -1], markers |-> <<>>]

Init ==
    /\ SessionInit
    /\ sent = <<>> /\ arrived = 0 /\ taken = 0 /\ buffer = <<>> /\ rxpc = "idle"
    /\ cbuf = <<>> /\ ccall = NoCall /\ cret = NoRet /\ reply = NoReply

\* ------------------------------------------------- foreground call stack
At(l) == fg # <<>> /\ Head(fg) = l
FgIdle == fg = <<>>

\* the call `op` starts at step l
Begin(op, l) == /\ FgIdle /\ fg' = <<l>> /\ fgOp' = op /\ UNCHANGED fgPrev
\* go on with step l of the same method
Goto(l) == /\ fg' = <<l>> \o Tail(fg) /\ fgPrev' = NoPrev /\ UNCHANGED fgOp
\* call a method starting at step l; the caller goes on at step ret
Call(l, ret) == /\ fg' = <<l, ret>> \o Tail(fg) /\ fgPrev' = NoPrev /\ UNCHANGED fgOp
\* the method returns normally
Return ==
    /\ fg' = Tail(fg)
    /\ IF Len(fg) = 1
       THEN fgOp' = "idle" /\ fgPrev' = <<fgOp, "ok">>
       ELSE fgPrev' = NoPrev /\ UNCHANGED fgOp
\* the method raises; every caller on the stack re-raises
Raise(code) == /\ fg' = <<>> /\ fgOp' = "idle" /\ fgPrev' = <<fgOp, code>>

\* ------------------------------------------------------ polling thread
\* what no step of _track changes
PollFrame ==
    UNCHANGED <<connVars, fgVars, rdVars, trackingThread, istage,
                connected, initialized, streaming, recording, paused, recOpen>>

\* _track, first statement: self._is_tracking = True
TrackBegin(t) ==
    /\ tpc[t] = "start"
    /\ tracking' = TRUE
    /\ tpc' = [tpc EXCEPT ![t] = "loop"]
    /\ PollFrame
    /\ UNCHANGED <<status, snapVars, commLock, dataLock, committed>>

\* _track: while self.is_tracking() and not self.is_paused()
TrackLoop(t) ==
    /\ tpc[t] = "loop"
    /\ tpc' = [tpc EXCEPT ![t] = IF tracking /\ ~paused THEN "fetch" ELSE "dead"]
    /\ PollFrame
    /\ UNCHANGED <<status, tracking, snapVars, commLock, dataLock, committed>>

\* NDVega._get_next_data_frame: if self.is_streaming() ... else ...
GetNextDataFrame(t) ==
    /\ tpc[t] = "fetch"
    /\ tpc' = [tpc EXCEPT ![t] = IF streaming THEN "stream" ELSE "request"]
    /\ PollFrame
    /\ UNCHANGED <<status, tracking, snapVars, commLock, dataLock, committed>>

\* send_command("BX2 --3d=all"): take the lock and send.  NDSocket.send raises
\* NDError (assert_is_connected) on a closed socket, which send_command wraps;
\* socket.send on a broken link raises OSError, which is no NDError and passes
\* every handler of _track.
PollSend(t) ==
    /\ tpc[t] = "request"
    /\ commLock = NoOwner
    /\ IF connOpen /\ linkUp
       THEN /\ commLock' = t
            /\ tpc' = [tpc EXCEPT ![t] = "recv"]
       ELSE /\ tpc' = [tpc EXCEPT ![t] = IF connOpen THEN "crashed" ELSE "error"]
            /\ UNCHANGED commLock
    /\ PollFrame
    /\ UNCHANGED <<status, tracking, snapVars, dataLock, committed>>

\* streaming mode: with self._comm_lock: response = self.receive_response()
PollStream(t) ==
    /\ tpc[t] = "stream"
    /\ commLock = NoOwner
    /\ commLock' = t
    /\ tpc' = [tpc EXCEPT ![t] = "recv_stream"]
    /\ PollFrame
    /\ UNCHANGED <<status, tracking, snapVars, dataLock, committed>>

\* What receive_response() hands to ReplyBX2(response) and update(reply):
\*   "frame"      a well-formed BX2 frame: decoded, then applied
\*   "badstart"   binary data with an unrecognised start sequence:
\*                parse_header raises NDError
\*   "ascii"      an ASCII reply other than ERROR: unpack_int on a str raises
\*                AttributeError, which parse_header turns into NDError
\*   "truncated"  a frame shorter than its content says: unpack_* raises
\*                IndexError, which nothing turns into NDError
\*   "ERROR"      ERRORxx: CAPIReply.parse returns without raising, data is a str
\*   "oserror"    socket.recv raises OSError, which is no NDError
Replies == {"frame", "badstart", "ascii", "truncated", "ERROR", "oserror"}

AfterReply(r) ==
    CASE r = "frame"     -> "update"
      [] r = "badstart"  -> "error"
      [] r = "ascii"     -> "error"
      [] r = "truncated" -> "crashed"
      [] r = "ERROR"     -> "updateERROR"
      [] r = "oserror"   -> "crashed"

\* the device has a frame to hand out
FrameReady == frame_num < MaxFrame

\* receive_response() gets bytes to read: the answer to the command sent, or
\* in streaming mode the next frame the device sends by itself.  With nothing
\* on the way receive(1) times out and the loop of receive_response tries
\* again, for as long as nothing comes.
Receiving(t) ==
    \/ tpc[t] = "recv"
    \/ tpc[t] = "recv_stream" /\ (pushing \/ ~(connOpen /\ linkUp))

\* the reply handed on with the communication lock still held
PollReceiveHolding(t) ==
    /\ Receiving(t)
    /\ IF connOpen /\ linkUp
       THEN \E r \in Replies :
              /\ r = "frame" => FrameReady
              /\ tpc' = [tpc EXCEPT ![t] = AfterReply(r)]
       ELSE tpc' = [tpc EXCEPT ![t] = IF connOpen THEN "crashed" ELSE "error"]
    /\ PollFrame
    /\ UNCHANGED <<status, tracking, snapVars, commLock, dataLock, committed>>

\* receive_response() returns or raises, the lock is released, and
\* ReplyBX2(response) is built from what was received
PollReceive(t) ==
    /\ Receiving(t)
    /\ commLock' = NoOwner
    /\ IF connOpen /\ linkUp
       THEN \E r \in Replies :
              /\ r = "frame" => FrameReady
              /\ tpc' = [tpc EXCEPT ![t] = AfterReply(r)]
       ELSE tpc' = [tpc EXCEPT ![t] = IF connOpen THEN "crashed" ELSE "error"]
    /\ PollFrame
    /\ UNCHANGED <<status, tracking, snapVars, dataLock, committed>>

\* update as it would be without "with self.data_lock": the snapshot is
\* rewritten while a reader may hold the lock
UpdateBeginUnlocked(t) ==
    /\ tpc[t] \in {"update", "updateERROR"}
    /\ markers' = <<>>
    /\ IF tpc[t] = "update"
       THEN /\ tpc' = [tpc EXCEPT ![t] = "update_frame"]
            /\ UNCHANGED committed
       ELSE /\ tpc' = [tpc EXCEPT ![t] = "crashed"]
            /\ committed' = [Snapshot EXCEPT !.markers = <<>>]
    /\ PollFrame
    /\ UNCHANGED <<status, tracking, frame_num, tools, commLock, dataLock>>

\* NDVega.update: with self.data_lock: self.markers = []; gb = reply.data; for ... in gb.data
\* For an ERROR reply gb is a str: gb.data raises AttributeError, the lock is
\* released by the with statement and the exception leaves _track.
UpdateBegin(t) ==
    /\ tpc[t] \in {"update", "updateERROR"}
    /\ dataLock = NoOwner
    /\ markers' = <<>>
    /\ IF tpc[t] = "update"
       THEN /\ dataLock' = t
            /\ tpc' = [tpc EXCEPT ![t] = "update_frame"]
            /\ UNCHANGED committed
       ELSE /\ UNCHANGED dataLock
            /\ tpc' = [tpc EXCEPT ![t] = "crashed"]
            /\ committed' = [Snapshot EXCEPT !.markers = <<>>]
    /\ PollFrame
    /\ UNCHANGED <<status, tracking, frame_num, tools, commLock>>

\* update: self.frame_num = frame_item.frame_number
UpdateFrame(t) ==
    /\ tpc[t] = "update_frame"
    /\ frame_num' = frame_num + 1
    /\ tpc' = [tpc EXCEPT ![t] = "update_tools"]
    /\ PollFrame
    /\ UNCHANGED <<status, tracking, tools, markers, commLock, dataLock, committed>>

\* update: update_tool for the 6D components (get_tool appends a tool for a
\* handle not yet in the list), add_stray_marker for the 3D component of
\* handle 0xFFFF; then the with statement releases the lock
UpdateTools(t) ==
    /\ tpc[t] = "update_tools"
    /\ \E k \in 0..MaxTools, s \in 0..MaxStray :
          /\ tools' = [h \in Handles |-> IF h <= k THEN frame_num ELSE tools[h]]
          /\ markers' = [i \in 1..s |-> frame_num]
          /\ committed' = [frame_num |-> frame_num, tools |-> tools', markers |-> markers']
    /\ dataLock' = NoOwner
    /\ tpc' = [tpc EXCEPT ![t] = "record"]
    /\ PollFrame
    /\ UNCHANGED <<status, tracking, frame_num, commLock>>

\* _get_next_data_frame after update(): `if self._recording6D.is_open:` then
\* NDDataFile.write, which raises NDError when the file is not open (any
\* more) and else calls _do_write_data_csv, whose self._file.write fails with
\* AttributeError or ValueError, neither an NDError, once close() has run
Record(t) ==
    /\ tpc[t] \in {"record", "write", "write_csv"}
    /\ tpc' = [tpc EXCEPT ![t] =
                 CASE tpc[t] = "record" -> IF recOpen THEN "write" ELSE "notify"
                   [] tpc[t] = "write"  -> IF recOpen THEN "write_csv" ELSE "error"
                   [] OTHER             -> IF recOpen THEN "notify" ELSE "crashed"]
    /\ PollFrame
    /\ UNCHANGED <<status, tracking, snapVars, commLock, dataLock, committed>>

\* _track: except NDError: self._status = NDStatusError(...); publish_event(ERROR)
TrackError(t) ==
    /\ tpc[t] = "error"
    /\ status' = "ERROR"
    /\ tpc' = [tpc EXCEPT ![t] = "notify"]
    /\ PollFrame
    /\ UNCHANGED <<tracking, snapVars, commLock, dataLock, committed>>

\* _track: for f in self._data_listeners: f(self); the listener of sample.py
\* (DataHandler.on_data_frame) reads the snapshot under data_lock
Notify(t) ==
    /\ tpc[t] = "notify"
    /\ dataLock = NoOwner
    /\ tpc' = [tpc EXCEPT ![t] = "loop"]
    /\ PollFrame
    /\ UNCHANGED <<status, tracking, snapVars, commLock, dataLock, committed>>

\* the steps of a polling thread that fetches by request
PollRequest(t) ==
    \/ TrackBegin(t) \/ TrackLoop(t) \/ GetNextDataFrame(t) \/ PollSend(t)
    \/ PollReceive(t) \/ UpdateBegin(t) \/ UpdateFrame(t)
    \/ UpdateTools(t) \/ Record(t) \/ TrackError(t) \/ Notify(t)

Poll(t) == PollRequest(t) \/ PollStream(t)

\* ---------------------------------------------------- foreground caller
\* what no foreground step changes
FgFrame == UNCHANGED <<rdVars, dataLock, committed, frame_num, markers, status>>

flagVars == <<connected, initialized, tracking, streaming, recording, paused, recOpen>>

\* a step that only decides where the call goes on
Control == /\ FgFrame
           /\ UNCHANGED <<connVars, flagVars, tools, commLock, thrVars, istage>>

\* send_command, first half: take _comm_lock and send the command
Send(next) ==
    /\ commLock = NoOwner
    /\ IF connOpen /\ linkUp
       THEN /\ commLock' = Fg /\ Goto(next)
       ELSE /\ UNCHANGED commLock
            /\ Raise(IF connOpen THEN "OSError" ELSE "USE_ERROR")

\* what the device answers to a command
Answers == {"OKAY", "ERROR"}

\* NDDataSource.connect -> NDCAPITracker._do_connect -> NDSocket.connect
Connect ==
    /\ Begin("connect", "co_connecting")
    /\ Control

CoConnecting ==
    /\ At("co_connecting")
    /\ Goto("co_socket")
    /\ FgFrame
    /\ UNCHANGED <<connVars, flagVars, tools, commLock, thrVars, istage>>

\* NDSocket.connect: nothing to do if _sock is set; else the socket object is
\* assigned before each attempt, so it stays set when every attempt fails
\* a connect() that gives up at the first transport failure
CoSocketNoRetry ==
    /\ At("co_socket")
    /\ IF connOpen
       THEN /\ Goto("co_done") /\ UNCHANGED connVars
       ELSE /\ connOpen' = TRUE /\ UNCHANGED <<attempt, pushing, ioVars>>
            /\ \E ok \in BOOLEAN :
                 /\ linkUp' = ok
                 /\ IF ok THEN Goto("co_done") ELSE Raise("COM_ERROR")
    /\ FgFrame
    /\ UNCHANGED <<flagVars, tools, commLock, thrVars, istage>>

\* attempt is the loop index: it stays at the index of the attempt that
\* succeeded until connect() returns
CoSocket ==
    /\ At("co_socket")
    /\ IF connOpen /\ attempt = 0
       THEN /\ Goto("co_done") /\ UNCHANGED connVars
       ELSE /\ connOpen' = TRUE /\ UNCHANGED <<pushing, ioVars>>
            /\ \E ok \in BOOLEAN :
                 /\ linkUp' = ok
                 /\ IF ok
                    THEN /\ Goto("co_done") /\ UNCHANGED attempt
                    ELSE IF attempt + 1 < NumRetries
                         THEN /\ attempt' = attempt + 1
                              /\ Goto("co_socket")
                         ELSE /\ attempt' = 0
                              /\ Raise("COM_ERROR")
    /\ FgFrame
    /\ UNCHANGED <<flagVars, tools, commLock, thrVars, istage>>

CoDone ==
    /\ At("co_done")
    /\ connected' = TRUE /\ initialized' = FALSE
    /\ attempt' = 0
    /\ Return
    /\ FgFrame
    /\ UNCHANGED <<connOpen, linkUp, pushing, ioVars, tracking, streaming, recording, paused, recOpen,
                   tools, commLock, thrVars, istage>>

\* NDTracker.disconnect
Disconnect ==
    /\ Begin("disconnect", "di_check")
    /\ Control

\* if self.is_tracking(): self.stop_tracking()
DiCheck ==
    /\ At("di_check")
    /\ IF tracking THEN Call("st_check", "di_super_t") ELSE Goto("di_super")
    /\ Control

\* NDDataSource.disconnect up to the publish
DiSuper ==
    /\ fg # <<>> /\ Head(fg) \in {"di_super", "di_super_t"}
    /\ IF ~connected
       THEN /\ Return
            /\ UNCHANGED <<connected, initialized>>
       ELSE /\ connected' = FALSE /\ initialized' = FALSE
            /\ Goto(IF Head(fg) = "di_super" THEN "di_close" ELSE "di_close_t")
    /\ FgFrame
    /\ UNCHANGED <<connVars, tracking, streaming, recording, paused, recOpen,
                   tools, commLock, thrVars, istage>>

\* _do_disconnect -> NDSocket.close
DiClose ==
    /\ fg # <<>> /\ Head(fg) \in {"di_close", "di_close_t"}
    /\ connOpen' = FALSE /\ linkUp' = FALSE /\ pushing' = FALSE
    /\ UNCHANGED <<attempt, ioVars>>
    /\ Return
    /\ FgFrame
    /\ UNCHANGED <<flagVars, tools, commLock, thrVars, istage>>

\* the exchanges of _do_initialize in the order of the code.  `error` is what
\* a reply ERROR does to the call: the NDError the code raises when it tests
\* reply.is_error(); "ValueError" where the unparsed text of the reply is
\* iterated as a handle list or formatted as a handle id; "ignored" where the
\* status is not looked at; "garbled" where the text is taken as a list of
\* handles and PHINF is sent for it before PINIT fails to format it.  `then`
\* and `none` are the exchanges that may follow a reply that is no error
\* (none: a PHSR reply listing no handle; 0: _do_initialize is done); whether
\* wireless tools are configured decides between PHRQ and PHSR 02.
Stage(cmd, error, then, none) ==
    [cmd |-> cmd, error |-> error, then |-> then, none |-> none]
InitStages ==
    << Stage("INIT",  "SYSTEM_ERROR", {2},     {}),         \* _do_initialize
       Stage("PHSR",  "ValueError",   {3},     {4}),        \* free: phsr(1)
       Stage("PHF",   "SYSTEM_ERROR", {4},     {}),         \* device.free
       Stage("PHSR",  "garbled",      {5},     {7, 9}),     \* phinf(20): phsr(0)
       Stage("PHINF", "ignored",      {6},     {}),         \* phinf(20)
       Stage("PINIT", "SYSTEM_ERROR", {7, 9},  {}),         \* wired tool
       Stage("PHRQ",  "ValueError",   {8},     {}),         \* load_wireless
       Stage("PVWR",  "FILE_ERROR",   {9},     {}),         \* load_srom
       Stage("PHSR",  "ValueError",   {10},    {12}),       \* initialize: phsr(2)
       Stage("PINIT", "SYSTEM_ERROR", {11},    {}),         \* device.initialize
       Stage("PHINF", "ignored",      {12},    {}),         \* get_info
       Stage("PHSR",  "ValueError",   {13},    {0}),        \* enable: phsr(3)
       Stage("PENA",  "SYSTEM_ERROR", {14},    {}),         \* device.enable
       Stage("PHINF", "ignored",      {0},     {}),         \* get_info
       Stage("PHINF", "ValueError",   {},      {}) >>       \* phinf(20) on a garbled list

\* what the device may answer at a stage: PHSR lists no handle or one
StageAnswers(s) ==
    IF s.cmd = "PHSR" THEN {"ERROR", "NONE", "ONE"} ELSE Answers

\* the exchanges that may follow the answer a at stage s; none: the call raises
GoesOn(s, a) ==
    IF s.then = {} /\ s.none = {} THEN {}
    ELSE IF a = "ERROR"
    THEN (IF s.error = "ignored" THEN s.then
          ELSE IF s.error = "garbled" THEN {Len(InitStages)} ELSE {})
    ELSE IF a = "NONE" THEN s.none ELSE s.then

\* the connection and the codec variables but cret, the reply of the exchange
connRest == <<connOpen, linkUp, attempt, pushing, rxVars, cbuf, ccall, reply>>

\* NDDataSource.initialize
Initialize ==
    /\ Begin("initialize", "in_assert")
    /\ Control

InAssert ==
    /\ At("in_assert")
    /\ IF connected
       THEN Goto("in_send") /\ istage' = 1
       ELSE Raise("USE_ERROR") /\ UNCHANGED istage
    /\ FgFrame
    /\ UNCHANGED <<connVars, flagVars, tools, commLock, thrVars>>

InSend ==
    /\ At("in_send")
    /\ Send("in_recv")
    /\ istage' = IF connOpen /\ linkUp THEN istage ELSE 0
    /\ cret' = NoRet
    /\ FgFrame
    /\ UNCHANGED <<connRest, flagVars, tools, thrVars>>

\* the reply of the exchange: cret holds it while _do_initialize goes on.  An
\* exception leaves through the wrappers, which re-raise it up to the caller
\* of initialize
InRecv ==
    /\ At("in_recv")
    /\ commLock' = NoOwner
    /\ IF ~linkUp
       THEN Raise("OSError") /\ istage' = 0 /\ cret' = NoRet
       ELSE \E a \in StageAnswers(InitStages[istage]) :
              IF GoesOn(InitStages[istage], a) = {}
              THEN Raise(InitStages[istage].error) /\ istage' = 0 /\ cret' = NoRet
              ELSE /\ \E n \in GoesOn(InitStages[istage], a) :
                        IF n = 0
                        THEN Goto("in_tools") /\ istage' = 0
                        ELSE Goto("in_send") /\ istage' = n
                   /\ cret' = [ok |-> TRUE, val |-> <<a>>]
    /\ FgFrame
    /\ UNCHANGED <<connRest, flagVars, tools, thrVars>>

\* NDVega._do_initialize: self.tools = [one tool per device of the registry]
InTools ==
    /\ At("in_tools")
    /\ \E n \in 0..MaxTools : tools' = [h \in Handles |-> IF h <= n THEN 0 ELSE -1]
    /\ committed' = [committed EXCEPT !.tools = tools']
    /\ Goto("in_done")
    /\ cret' = NoRet
    /\ UNCHANGED <<rdVars, dataLock, frame_num, markers, status>>
    /\ UNCHANGED <<connRest, flagVars, commLock, thrVars, istage>>

InDone ==
    /\ At("in_done")
    /\ initialized' = TRUE
    /\ Return
    /\ FgFrame
    /\ UNCHANGED <<connVars, connected, tracking, streaming, recording, paused,
                   recOpen, tools, commLock, thrVars, istage>>

\* the slot the next threading.Thread(target=self._track) runs in
FreeSlots == {t \in Threads : ~Alive(t)}
NewThread == CHOOSE t \in FreeSlots : \A u \in FreeSlots : t <= u

\* NDTracker.start_tracking
StartTracking ==
    /\ FreeSlots # {}
    /\ Begin("start_tracking", "sk_assert")
    /\ Control

\* self.assert_is_connected(); if not self.is_initialized(): self.initialize()
SkAssert ==
    /\ At("sk_assert")
    /\ IF ~connected THEN Raise("USE_ERROR")
       ELSE IF ~initialized THEN Call("in_assert", "sk_tstart")
       ELSE Goto("sk_tstart")
    /\ Control

\* _do_start_tracking: send_command("TSTART ")
SkTstart ==
    /\ At("sk_tstart")
    /\ Send("sk_tstart_r")
    /\ FgFrame
    /\ UNCHANGED <<connVars, flagVars, tools, thrVars, istage>>

\* the reply to a command whose result the caller does not look at
\* (TSTART, TSTOP, STREAM, USTREAM: "return reply.is_ok()" is dropped)
Recv(next) ==
    /\ commLock' = NoOwner
    /\ IF linkUp THEN Goto(next) ELSE Raise("OSError")

SkTstartR ==
    /\ At("sk_tstart_r")
    /\ Recv("sk_spawn")
    /\ FgFrame
    /\ UNCHANGED <<connVars, flagVars, tools, thrVars, istage>>

\* self._tracking_thread = Thread(target=self._track); .start(); publish
SkSpawn ==
    /\ At("sk_spawn")
    /\ trackingThread' = NewThread
    /\ tpc' = [tpc EXCEPT ![NewThread] = "start"]
    /\ Return
    /\ FgFrame
    /\ UNCHANGED <<connVars, flagVars, tools, commLock, istage>>

\* NDTracker.pause_tracking
PauseTracking ==
    /\ FgIdle
    /\ paused' = TRUE
    /\ fgPrev' = <<"pause_tracking", "ok">>
    /\ FgFrame
    /\ UNCHANGED <<fg, fgOp, connVars, connected, initialized, tracking, streaming,
                   recording, recOpen, tools, commLock, thrVars, istage>>

\* NDTracker.unpause_tracking
UnpauseTracking ==
    /\ FgIdle
    /\ paused' = FALSE
    /\ fgPrev' = <<"unpause_tracking", "ok">>
    /\ FgFrame
    /\ UNCHANGED <<fg, fgOp, connVars, connected, initialized, tracking, streaming,
                   recording, recOpen, tools, commLock, thrVars, istage>>

\* NDTracker.stop_tracking
StopTracking ==
    /\ Begin("stop_tracking", "st_check")
    /\ Control

\* if not self.is_tracking(): return True
StCheck ==
    /\ At("st_check")
    /\ IF tracking THEN Goto("st_rec") ELSE Return
    /\ Control

\* a stop_tracking() that leaves a recording running
StRecSkip ==
    /\ At("st_rec")
    /\ Goto("st_str")
    /\ Control

\* if self.is_recording(): self.stop_recording()
StRec ==
    /\ At("st_rec")
    /\ IF recording THEN Call("xr_check", "st_str") ELSE Goto("st_str")
    /\ Control

\* if self.is_streaming(): self.stop_streaming()
StStr ==
    /\ At("st_str")
    /\ IF streaming THEN Call("xs_check", "st_unpause") ELSE Goto("st_unpause")
    /\ Control

\* self.unpause_tracking()
StUnpause ==
    /\ At("st_unpause")
    /\ paused' = FALSE
    /\ Goto("st_clear")
    /\ FgFrame
    /\ UNCHANGED <<connVars, connected, initialized, tracking, streaming, recording,
                   recOpen, tools, commLock, thrVars, istage>>

\* self._is_tracking = False
StClear ==
    /\ At("st_clear")
    /\ tracking' = FALSE
    /\ Goto("st_join")
    /\ FgFrame
    /\ UNCHANGED <<connVars, connected, initialized, paused, streaming, recording,
                   recOpen, tools, commLock, thrVars, istage>>

\* self._tracking_thread.join(): returns once that thread has ended
StJoin ==
    /\ At("st_join")
    /\ trackingThread # 0 /\ ~Alive(trackingThread)
    /\ Goto("st_tstop")
    /\ Control

\* _do_stop_tracking: send_command("TSTOP ")
StTstop ==
    /\ At("st_tstop")
    /\ Send("st_tstop_r")
    /\ FgFrame
    /\ UNCHANGED <<connVars, flagVars, tools, thrVars, istage>>

StTstopR ==
    /\ At("st_tstop_r")
    /\ Recv("st_publish")
    /\ FgFrame
    /\ UNCHANGED <<connVars, flagVars, tools, thrVars, istage>>

StPublish ==
    /\ At("st_publish")
    /\ Return
    /\ FgFrame
    /\ UNCHANGED <<connVars, flagVars, tools, commLock, thrVars, istage>>

\* NDTracker.start_streaming
StartStreaming ==
    /\ Begin("start_streaming", "ss_assert")
    /\ Control

\* a start_streaming() without assert_is_tracking()
SsAssertUnchecked ==
    /\ At("ss_assert")
    /\ streaming' = TRUE /\ Goto("ss_send")
    /\ FgFrame
    /\ UNCHANGED <<connVars, connected, initialized, tracking, recording, paused,
                   recOpen, tools, commLock, thrVars, istage>>

\* self.assert_is_tracking(); self._is_streaming = True
SsAssert ==
    /\ At("ss_assert")
    /\ IF connected /\ tracking
       THEN streaming' = TRUE /\ Goto("ss_send")
       ELSE UNCHANGED streaming /\ Raise("USE_ERROR")
    /\ FgFrame
    /\ UNCHANGED <<connVars, connected, initialized, tracking, recording, paused,
                   recOpen, tools, commLock, thrVars, istage>>

\* NDPolaris._do_start_streaming: send_command("STREAM BX2 ...");
\* except NDError: self._is_streaming = False -- OSError is no NDError
SsSend ==
    /\ At("ss_send")
    /\ Send("ss_recv")
    /\ streaming' = IF ~connOpen THEN FALSE ELSE streaming
    /\ pushing' = IF connOpen /\ linkUp THEN TRUE ELSE pushing
    /\ FgFrame
    /\ UNCHANGED <<connOpen, linkUp, attempt, ioVars, connected, initialized,
                   tracking, recording, paused, recOpen, tools, thrVars, istage>>

\* the reply is read, the lock released; return self.is_streaming()
SsRecv ==
    /\ At("ss_recv")
    /\ commLock' = NoOwner
    /\ IF linkUp THEN Return ELSE Raise("OSError")
    /\ FgFrame
    /\ UNCHANGED <<connVars, flagVars, tools, thrVars, istage>>

\* NDTracker.stop_streaming
StopStreaming ==
    /\ Begin("stop_streaming", "xs_check")
    /\ Control

\* if not self.is_streaming(): return True; self._is_streaming = False
XsCheck ==
    /\ At("xs_check")
    /\ IF streaming
       THEN streaming' = FALSE /\ Goto("xs_send")
       ELSE UNCHANGED streaming /\ Return
    /\ FgFrame
    /\ UNCHANGED <<connVars, connected, initialized, tracking, recording, paused,
                   recOpen, tools, commLock, thrVars, istage>>

\* NDPolaris._do_stop_streaming: send_command("USTREAM BX2 ...")
XsSend ==
    /\ At("xs_send")
    /\ Send("xs_recv")
    /\ pushing' = IF connOpen /\ linkUp THEN FALSE ELSE pushing
    /\ FgFrame
    /\ UNCHANGED <<connOpen, linkUp, attempt, ioVars, flagVars, tools, thrVars, istage>>

XsRecv ==
    /\ At("xs_recv")
    /\ commLock' = NoOwner
    /\ IF linkUp THEN Return ELSE Raise("OSError")
    /\ FgFrame
    /\ UNCHANGED <<connVars, flagVars, tools, thrVars, istage>>

\* NDTracker.start_recording
StartRecording ==
    /\ Begin("start_recording", "sr_assert")
    /\ Control

\* self.assert_is_tracking()
SrAssert ==
    /\ At("sr_assert")
    /\ IF connected /\ tracking THEN Goto("sr_start") ELSE Raise("USE_ERROR")
    /\ Control

\* NDVega._do_recording_start: with no tool it logs and returns False, else it
\* opens the 6D file; start_recording does not look at what it returns
SrStart ==
    /\ At("sr_start")
    /\ recOpen' = IF num_tools = 0 THEN recOpen ELSE TRUE
    /\ Goto("sr_done")
    /\ FgFrame
    /\ UNCHANGED <<connVars, connected, initialized, tracking, streaming, recording,
                   paused, tools, commLock, thrVars, istage>>

\* self._is_recording = True; publish_event(RECORDING_START)
SrDone ==
    /\ At("sr_done")
    /\ recording' = TRUE
    /\ Return
    /\ FgFrame
    /\ UNCHANGED <<connVars, connected, initialized, tracking, streaming, paused,
                   recOpen, tools, commLock, thrVars, istage>>

\* NDTracker.stop_recording
StopRecording ==
    /\ Begin("stop_recording", "xr_check")
    /\ Control

\* if not self.is_recording(): return True; self._do_recording_stop()
XrCheck ==
    /\ At("xr_check")
    /\ IF recording
       THEN recOpen' = FALSE /\ Goto("xr_done")
       ELSE UNCHANGED recOpen /\ Return
    /\ FgFrame
    /\ UNCHANGED <<connVars, connected, initialized, tracking, streaming, recording,
                   paused, tools, commLock, thrVars, istage>>

\* publish_event(RECORDING_STOP); self._is_recording = False
XrDone ==
    /\ At("xr_done")
    /\ recording' = FALSE
    /\ Return
    /\ FgFrame
    /\ UNCHANGED <<connVars, connected, initialized, tracking, streaming, paused,
                   recOpen, tools, commLock, thrVars, istage>>

\* NDCAPITracker.get_log_response: self.receive(6), then self.receive(1) until
\* the read times out; _comm_lock is not taken
GetLogResponse ==
    /\ Begin("get_log_response", "gl_header")
    /\ Control

GlHeader ==
    /\ At("gl_header")
    /\ IF connOpen /\ linkUp THEN Goto("gl_body")
       ELSE Raise(IF connOpen THEN "OSError" ELSE "USE_ERROR")
    /\ Control

GlBody ==
    /\ At("gl_body")
    /\ IF connOpen /\ linkUp THEN Return ELSE Raise("OSError")
    /\ Control

\* the public calls, each with its steps
\* NDTracker.reset
Reset ==
    /\ Begin("reset", "rs_assert")
    /\ Control

\* self.assert_is_connected(); self.stop_recording()
RsAssert ==
    /\ At("rs_assert")
    /\ IF connected THEN Call("xr_check", "rs_stop") ELSE Raise("USE_ERROR")
    /\ Control

\* self.stop_tracking()
RsStop ==
    /\ At("rs_stop")
    /\ Call("st_check", "rs_send")
    /\ Control

\* NDCAPITracker._do_reset: was_initialized = self.is_initialized(), then
\* send_command('RESET '); the step label keeps was_initialized
RsSend ==
    /\ At("rs_send")
    /\ Send(IF initialized THEN "rs_recv_init" ELSE "rs_recv")
    /\ FgFrame
    /\ UNCHANGED <<connVars, flagVars, tools, thrVars, istage>>

\* the RESET reply: an error reply raises SYSTEM_ERROR; otherwise
\* "return self.initialize()" if was_initialized
RsRecv ==
    /\ At("rs_recv") \/ At("rs_recv_init")
    /\ commLock' = NoOwner
    /\ IF ~linkUp
       THEN Raise("OSError")
       ELSE \E a \in Answers :
              IF a = "ERROR" THEN Raise("SYSTEM_ERROR")
              ELSE IF At("rs_recv_init") THEN Call("in_assert", "rs_done")
              ELSE Goto("rs_done")
    /\ FgFrame
    /\ UNCHANGED <<connVars, flagVars, tools, thrVars, istage>>

\* publish RESET; return True
RsDone ==
    /\ At("rs_done")
    /\ Return
    /\ Control

ConnectOps    == Connect \/ CoConnecting \/ CoSocket \/ CoDone
DisconnectOps == Disconnect \/ DiCheck \/ DiSuper \/ DiClose
InitializeOps == Initialize \/ InAssert \/ InSend \/ InRecv \/ InTools \/ InDone
InitializeSteps == InAssert \/ InSend \/ InRecv \/ InTools \/ InDone
StartSteps    == SkAssert \/ SkTstart \/ SkTstartR \/ SkSpawn
StartOps      == StartTracking \/ StartSteps
StopOps       == StopTracking \/ StCheck \/ StRec \/ StStr \/ StUnpause \/ StClear
                 \/ StJoin \/ StTstop \/ StTstopR \/ StPublish
PauseOps      == PauseTracking \/ UnpauseTracking
StreamOps     == StartStreaming \/ SsAssert \/ SsSend \/ SsRecv
                 \/ StopStreaming \/ XsCheck \/ XsSend \/ XsRecv
RecordOps     == StartRecording \/ SrAssert \/ SrStart \/ SrDone
                 \/ StopRecording \/ XrCheck \/ XrDone
LogOps        == GetLogResponse \/ GlHeader \/ GlBody
ResetOps      == Reset \/ RsAssert \/ RsStop \/ RsSend \/ RsRecv \/ RsDone

Polling == \E t \in Threads : Poll(t)

\* every call, from every state, with polling by request and by stream
Next ==
    \/ ConnectOps \/ DisconnectOps \/ InitializeOps \/ StartOps \/ StopOps
    \/ PauseOps \/ StreamOps \/ RecordOps \/ LogOps \/ ResetOps
    \/ Polling

Spec == Init /\ [][Next]_vars

\* An application that calls start_tracking() only while no polling thread runs
StartOnce == (\A t \in Threads : ~Alive(t)) /\ StartTracking

\* the session life cycle with one polling thread that fetches by request
NextOne ==
    \/ ConnectOps \/ DisconnectOps \/ InitializeOps \/ StartOnce \/ StartSteps
    \/ StopOps \/ PauseOps
    \/ \E t \in Threads : PollRequest(t)

SpecOne == Init /\ [][NextOne]_vars

\* start, stop and disconnect with start_tracking() free to be called again
NextStop ==
    \/ ConnectOps \/ DisconnectOps \/ InitializeSteps \/ StartOps \/ StopOps
    \/ \E t \in Threads : PollRequest(t)

SpecStop == Init /\ [][NextStop]_vars

\* One polling thread, recording started and stopped while it runs
NextRec ==
    \/ ConnectOps \/ InitializeSteps \/ StartOnce \/ StartSteps \/ RecordOps
    \/ \E t \in Threads : PollRequest(t)

SpecRec == Init /\ [][NextRec]_vars

\* One polling thread, by request or by stream, and a caller reading the log
NextComm ==
    \/ ConnectOps \/ InitializeSteps \/ StartOnce \/ StartSteps \/ StreamOps \/ LogOps
    \/ Polling

SpecComm == Init /\ [][NextComm]_vars

\* Every public session call in any order, one polling thread at a time
NextSession ==
    \/ ConnectOps \/ DisconnectOps \/ InitializeOps \/ StartOnce \/ StartSteps
    \/ StopOps \/ PauseOps \/ StreamOps \/ RecordOps \/ ResetOps
    \/ Polling

SpecSession == Init /\ [][NextSession]_vars

\* One polling thread at a time, by request or by stream, started and stopped
NextQuit ==
    \/ ConnectOps \/ InitializeSteps \/ StartOnce \/ StartSteps \/ StopOps
    \/ StreamOps \/ Polling

\* the steps of a stop_tracking() in progress, stop_streaming() included
StopSteps ==
    \/ StCheck \/ StRec \/ StStr \/ StUnpause \/ StClear \/ StJoin \/ StTstop
    \/ StTstopR \/ StPublish \/ XsCheck \/ XsSend \/ XsRecv

\* Scheduling: a polling thread that can run does run, and the caller inside
\* stop_tracking() goes on; either gets a lock that is free again and again.
SpecQuit ==
    /\ Init /\ [][NextQuit]_vars
    /\ SF_vars(StopSteps)
    /\ \A t \in Threads : SF_vars(Poll(t))

\* --------------------------------------------------- snapshot readers
\* An application thread that reads the snapshot the way DataHandler.on_data_frame
\* does: with tracker.data_lock: frame_num, then the tools, then the markers
RdFrame ==
    UNCHANGED <<connVars, flagVars, snapVars, commLock, thrVars, fgVars, istage,
                status, committed>>

RdAcquire(r) ==
    /\ rpc[r] = "idle"
    /\ dataLock = NoOwner
    /\ dataLock' = r
    /\ rpc' = [rpc EXCEPT ![r] = "frame_num"]
    /\ UNCHANGED rval
    /\ RdFrame

RdFrameNum(r) ==
    /\ rpc[r] = "frame_num"
    /\ rval' = [rval EXCEPT ![r] = <<frame_num>>]
    /\ rpc' = [rpc EXCEPT ![r] = "tools"]
    /\ UNCHANGED dataLock
    /\ RdFrame

RdTools(r) ==
    /\ rpc[r] = "tools"
    /\ rval' = [rval EXCEPT ![r] = Append(@, tools)]
    /\ rpc' = [rpc EXCEPT ![r] = "markers"]
    /\ UNCHANGED dataLock
    /\ RdFrame

RdMarkers(r) ==
    /\ rpc[r] = "markers"
    /\ rval' = [rval EXCEPT ![r] = Append(@, markers)]
    /\ rpc' = [rpc EXCEPT ![r] = "release"]
    /\ UNCHANGED dataLock
    /\ RdFrame

\* the with statement ends: the lock is released
RdRelease(r) ==
    /\ rpc[r] = "release"
    /\ dataLock' = NoOwner
    /\ rpc' = [rpc EXCEPT ![r] = "idle"]
    /\ rval' = [rval EXCEPT ![r] = <<>>]
    /\ RdFrame

Read(r) == RdAcquire(r) \/ RdFrameNum(r) \/ RdTools(r) \/ RdMarkers(r) \/ RdRelease(r)

\* An application that connects once, starts and stops tracking, and whose
\* other threads read the snapshot of the initialized session
ConnectOnce == ~connected /\ Connect
ReadInitialized == initialized /\ \E r \in Readers : Read(r)

NextSnap ==
    \/ ConnectOnce \/ CoConnecting \/ CoSocket \/ CoDone
    \/ InitializeSteps \/ StartOps \/ StopOps
    \/ \E t \in Threads : PollRequest(t)
    \/ ReadInitialized

SpecSnap == Init /\ [][NextSnap]_vars

\* ------------------------------------------- NDCAPITracker.receive_response
\* One call of receive_response() on the byte stream `sent`, whose bytes reach
\* the socket in any grouping while the call runs.
CR            == 13                \* end of an ASCII reply
StartStandard == <<196, 165>>      \* 0xC4 0xA5
StartExtended == <<200, 165>>      \* 0xC8 0xA5
StartStream   == <<212, 181>>      \* 0xD4 0xB5

sessVars == <<connOpen, linkUp, attempt, pushing, flagVars, status, snapVars, commLock,
              dataLock, thrVars, fgVars, istage, rdVars, committed>>

Min(a, b) == IF a <= b THEN a ELSE b

\* bytes waiting in the socket
Avail == arrived - taken

\* socket.recv(n): what has arrived, at most n bytes
Got(n) == SubSeq(sent, taken + 1, taken + Min(n, Avail))

\* socket.recv(n) with nothing to hand out raises socket.timeout after the
\* 0.25 s set by NDSocket.connect; recv(0) returns b'' at once
RecvTimesOut(n) == n > 0 /\ Avail = 0

\* (buffer[3] << 8) + buffer[2]
Length16(b) == b[4] * 256 + b[3]
\* (((((buffer[5] << 8) + buffer[4]) << 8) + buffer[3]) << 8) + buffer[2]
Length32(b) == ((b[6] * 256 + b[5]) * 256 + b[4]) * 256 + b[3]

\* buffer.extend(self.receive(n)) outside any try: a timeout leaves the call;
\* then the step goes on at `next`, or fails with IndexError when the code
\* indexes the buffer up to position `need` and the buffer is shorter
Extend(n, need, next) ==
    IF RecvTimesOut(n)
    THEN /\ rxpc' = "timeout"
         /\ UNCHANGED <<taken, buffer>>
    ELSE /\ taken' = taken + Len(Got(n))
         /\ buffer' = buffer \o Got(n)
         /\ rxpc' = IF Len(buffer') < need THEN "IndexError" ELSE next

RxFrame == UNCHANGED <<sessVars, cVars, sent, arrived>>

\* more of the stream reaches the socket
Arrive ==
    /\ rxpc \notin {"idle", "returned", "timeout", "IndexError"}
    /\ arrived < Len(sent)
    /\ \E k \in 1..(Len(sent) - arrived) : arrived' = arrived + k
    /\ UNCHANGED <<sessVars, cVars, sent, taken, buffer, rxpc>>

\* the end-of-reply test with the minimum length dropped
CompleteOnCR(b) == b[Len(b)] = CR

\* `if len(buffer) < 2: continue` then `if buffer[-1] == 13`: an ASCII reply is
\* complete
Complete(b) == Len(b) >= 2 /\ b[Len(b)] = CR

\* one turn of the while True loop: receive(1), retried on timeout, then the
\* tests on the buffer.  buffer.decode("ascii") maps each byte below 128 to the
\* character of that code; the replies written here are 7-bit.
RxLoop ==
    /\ rxpc = "loop"
    /\ IF Avail = 0
       THEN UNCHANGED <<taken, buffer, rxpc>>
       ELSE /\ taken' = taken + 1
            /\ buffer' = buffer \o Got(1)
            /\ rxpc' = IF Complete(buffer') THEN "returned"
                       ELSE IF Len(buffer') < 2 THEN "loop"
                       ELSE IF SubSeq(buffer', 1, 2) = StartStandard THEN "header"
                       ELSE IF SubSeq(buffer', 1, 2) = StartExtended THEN "xheader"
                       ELSE IF SubSeq(buffer', 1, 2) = StartStream THEN "sheader"
                       ELSE "loop"
    /\ RxFrame

\* standard binary: receive(4); data_length = (buffer[3] << 8) + buffer[2]
RxHeader ==
    /\ rxpc = "header"
    /\ Extend(4, 4, "data")
    /\ RxFrame

\* buffer.extend(self.receive(data_length))
RxData ==
    /\ rxpc = "data"
    /\ Extend(Length16(buffer), 0, "crc")
    /\ RxFrame

\* buffer.extend(self.receive(2)); return buffer
RxCrc ==
    /\ rxpc = "crc"
    /\ Extend(2, 0, "returned")
    /\ RxFrame

\* extended binary: receive(4); data_length from buffer[2..5]
RxXHeader ==
    /\ rxpc = "xheader"
    /\ Extend(4, 6, "xdata")
    /\ RxFrame

\* while received_total < data_length: receive(data_length); return buffer
RxXData ==
    /\ rxpc = "xdata"
    /\ IF Len(buffer) - 6 < Length32(buffer)
       THEN Extend(Length32(buffer), 0, "xdata")
       ELSE rxpc' = "returned" /\ UNCHANGED <<taken, buffer>>
    /\ RxFrame

\* stream wrapper: receive(2); id_length = (buffer[3] << 8) + buffer[2]
RxSHeader ==
    /\ rxpc = "sheader"
    /\ Extend(2, 4, "sid")
    /\ RxFrame

\* buffer.extend(bytearray(self.receive(id_length)))
RxSId ==
    /\ rxpc = "sid"
    /\ Extend(Length16(buffer), 0, "scrc")
    /\ RxFrame

\* receive(2); buffer = bytearray(); continue
RxSCrc ==
    /\ rxpc = "scrc"
    /\ IF RecvTimesOut(2)
       THEN rxpc' = "timeout" /\ UNCHANGED <<taken, buffer>>
       ELSE /\ taken' = taken + Len(Got(2))
            /\ buffer' = <<>>
            /\ rxpc' = "loop"
    /\ RxFrame

ReceiveResponse ==
    \/ RxLoop \/ RxHeader \/ RxData \/ RxCrc \/ RxXHeader \/ RxXData
    \/ RxSHeader \/ RxSId \/ RxSCrc

\* the replies a device writes: frames of each kind with every payload up to
\* MaxPayload bytes over PayloadBytes, alone or followed by the next reply
PayloadBytes == {CR, 65}
Payloads == UNION {[1..n -> PayloadBytes] : n \in 0..MaxPayload}
HeaderCrc == <<1, 2>>
DataCrc == <<3, 4>>
StandardFrame(p) ==
    StartStandard \o <<Len(p) % 256, Len(p) \div 256>> \o HeaderCrc \o p \o DataCrc
ExtendedFrame(p) ==
    StartExtended \o <<Len(p) % 256, Len(p) \div 256, 0, 0>> \o p
StreamWrapper(id) == StartStream \o <<Len(id) % 256, Len(id) \div 256>> \o id \o HeaderCrc
AsciiReplies == {<<65, CR>>, <<CR, 65, CR>>, <<65, 65, CR>>}
Following == {<<>>, <<65, CR>>}
Streams ==
    {StandardFrame(p) \o f : p \in Payloads, f \in Following}
    \cup {ExtendedFrame(p) \o f : p \in Payloads, f \in Following}
    \cup {StreamWrapper(id) \o StandardFrame(p) : id \in {<<>>, <<65>>}, p \in Payloads}
    \cup {a \o f : a \in AsciiReplies, f \in Following}

InitRecv ==
    /\ SessionInit
    /\ sent \in Streams
    /\ arrived = 0 /\ taken = 0 /\ buffer = <<>> /\ rxpc = "loop"
    /\ cbuf = <<>> /\ ccall = NoCall /\ cret = NoRet /\ reply = NoReply

NextRecv == Arrive \/ ReceiveResponse

SpecRecv == InitRecv /\ [][NextRecv]_vars

\* ------------------------------------------------------ capi/packer.py
\* The byte-cursor reads.  Each takes the buffer and returns what the call
\* returned or raised (ok, val) and the buffer as the call leaves it (rest).
\* A str is the sequence of its code points (chr(b) has code point b).
LF == 10                           \* '\n'

Take(b, n) == SubSeq(b, 1, n)
Drop(b, n) == SubSeq(b, n + 1, Len(b))
Raised(e, b)   == [ok |-> FALSE, val |-> e, rest |-> b]
Returned(v, b) == [ok |-> TRUE, val |-> v, rest |-> b]

UnpackBytes(b, n) ==
    IF n < 0 \/ Len(b) < n THEN Raised("IndexError", b)
    ELSE Returned(Take(b, n), Drop(b, n))

UnpackChar(b, n) ==
    IF n < 0 \/ Len(b) < n THEN Raised("IndexError", b)
    ELSE Returned(Take(b, n), Drop(b, n))

\* while len(buffer) > 0: pop one character, return at '\n'; the loop ends
\* without a return statement when the buffer runs out
NewlineAt(b) ==
    IF \E i \in 1..Len(b) : b[i] = LF
    THEN CHOOSE i \in 1..Len(b) : b[i] = LF /\ \A j \in 1..(i - 1) : b[j] # LF
    ELSE 0
UnpackString(b) ==
    IF NewlineAt(b) = 0 THEN Returned("None", <<>>)
    ELSE Returned(Take(b, NewlineAt(b)), Drop(b, NewlineAt(b)))

\* bytes([a, b, c, d]) with the bytes not read left 0
Padded(b, n) == [i \in 1..4 |-> IF i <= n THEN b[i] ELSE 0]
\* struct.unpack('<i', ...): little endian, two's complement
Int32(q) ==
    q[1] + 256 * q[2] + 65536 * q[3]
      + 16777216 * (IF q[4] >= 128 THEN q[4] - 256 ELSE q[4])
\* struct.unpack('<I', ...): little endian, unsigned
Uint32(q) == q[1] + 256 * q[2] + 65536 * q[3] + 16777216 * q[4]

UnpackInt(b, n) ==
    IF n < 1 \/ n > 4 \/ Len(b) < n THEN Raised("IndexError", b)
    ELSE Returned(Int32(Padded(b, n)), Drop(b, n))

UnpackUint(b, n) ==
    IF n < 1 \/ n > 4 \/ Len(b) < n THEN Raised("IndexError", b)
    ELSE Returned(Uint32(Padded(b, n)), Drop(b, n))

\* struct.unpack('<f', ...): the float with these four bytes as its bits
UnpackFloat(b) ==
    IF Len(b) < 4 THEN Raised("IndexError", b)
    ELSE Returned(<<"float", Take(b, 4)>>, Drop(b, 4))

\* a decoder call on the buffer: the buffer is mutated in place
Apply(name, arg, r) ==
    /\ ccall' = <<name, arg>>
    /\ cret' = [ok |-> r.ok, val |-> r.val]
    /\ cbuf' = r.rest
    /\ UNCHANGED <<sessVars, rxVars, reply>>

PackerBytes == {0, LF, 65, 127}
Buffers == UNION {[1..n -> PackerBytes] : n \in 0..MaxBuf}
\* buffers with the top bit of a byte set
HighBuffers == {<<128>>, <<255, 255>>, <<255, 255, 0>>, <<0, 255, 65>>}
Counts == (0 - 1)..(MaxBuf + 1)

CallUnpackBytes  == \E n \in Counts : Apply("unpack_bytes", n, UnpackBytes(cbuf, n))
CallUnpackChar   == \E n \in Counts : Apply("unpack_char", n, UnpackChar(cbuf, n))
CallUnpackString == Apply("unpack_string", 0, UnpackString(cbuf))
CallUnpackInt    == \E n \in Counts : Apply("unpack_int", n, UnpackInt(cbuf, n))
CallUnpackUint   == \E n \in Counts : Apply("unpack_uint", n, UnpackUint(cbuf, n))
CallUnpackFloat  == Apply("unpack_float", 4, UnpackFloat(cbuf))

\* any sequence of reads on one buffer
InitPacker ==
    /\ SessionInit
    /\ sent = <<>> /\ arrived = 0 /\ taken = 0 /\ buffer = <<>> /\ rxpc = "idle"
    /\ cbuf \in Buffers \cup HighBuffers /\ ccall = NoCall /\ cret = NoRet /\ reply = NoReply

NextPacker ==
    \/ CallUnpackBytes \/ CallUnpackChar \/ CallUnpackString
    \/ CallUnpackInt \/ CallUnpackUint \/ CallUnpackFloat

SpecPacker == InitPacker /\ [][NextPacker]_vars

\* --------------------------------------------------------- capi/gbf.py
\* The General Binary Format decoder.  Every parse() takes the buffer and
\* returns the component it built (ok, val) and the buffer as it leaves it
\* (rest); an exception leaves the buffer where the failing read found it.
\* A component is a record of its fields, data being the list of children.

\* consecutive unpack_int(buffer, n) / unpack_float(buffer) calls:
\* "i1", "i2", "i4" read an integer of that many bytes, "u1", "u2", "u4" an
\* unsigned one, "f" a float.
\* Only({e(r) : r \in {call}}) is e of the call's result, the call made once.
Only(S) == CHOOSE v \in S : TRUE
Width(k) == CASE k \in {"i1", "u1"} -> 1 [] k \in {"i2", "u2"} -> 2
                 [] k \in {"i4", "u4"} -> 4
ReadField(b, k) ==
    CASE k = "f" -> UnpackFloat(b)
      [] k \in {"u1", "u2", "u4"} -> UnpackUint(b, Width(k))
      [] OTHER -> UnpackInt(b, Width(k))
RECURSIVE ReadFields(_, _)
ReadFields(b, ks) ==
    IF ks = <<>> THEN Returned(<<>>, b)
    ELSE Only({ IF ~r.ok THEN r
                ELSE Only({ IF ~s.ok THEN s
                            ELSE Returned(<<r.val>> \o s.val, s.rest)
                            : s \in {ReadFields(r.rest, Tail(ks))} })
                : r \in {ReadField(b, Head(ks))} })

\* defines.py: the values of the enumerations the decoder constructs
ComponentTypes == {0, 1, 2, 3, 4, 9, 10, 18}
TypeNONE == 0
TypeFrame == 1
Type6D == 2
Type3D == 3
Type1D == 4
Type3DError == 9
FrameTypes == 0..7
Status3Ds == (0..8) \cup {255}
Status3DMissing == 1

RECURSIVE Repeat(_, _, _), ParseOne(_, _), GeneralBinaryPayload(_)

\* for i in range(k): self.add_data(<kind>(buffer))
Repeat(kind, b, k) ==
    IF k <= 0 THEN Returned(<<>>, b)
    ELSE Only({ IF ~r.ok THEN r
                ELSE Only({ IF ~s.ok THEN s
                            ELSE Returned(<<r.val>> \o s.val, s.rest)
                            : s \in {Repeat(kind, r.rest, k - 1)} })
                : r \in {ParseOne(kind, b)} })

ComponentButton(b) == UnpackInt(b, 1)

\* port handle, number of items, then that many items of one kind
Counted(b, kind) ==
    Only({ IF ~h.ok THEN h
           ELSE Only({ IF ~d.ok THEN d
                       ELSE Returned([port_handle |-> h.val[1],
                                      num_items |-> h.val[2],
                                      data |-> d.val], d.rest)
                       : d \in {Repeat(kind, h.rest, h.val[2])} })
           : h \in {ReadFields(b, <<"i2", "i2">>)} })

Component1D(b) == Counted(b, "ComponentButton")

\* status and index read, the position follows unless the status is Missing
Position3D(st, h) ==
    IF st = Status3DMissing
    THEN Returned([status |-> st, index |-> h.val[2],
                   data |-> <<"MISSING">>], h.rest)
    ELSE Only({ IF ~p.ok THEN p
                ELSE Returned([status |-> st, index |-> h.val[2],
                               data |-> <<p.val>>], p.rest)
                : p \in {ReadFields(h.rest, <<"f", "f", "f">>)} })

Item3D(b) ==
    Only({ IF ~s.ok THEN s
           ELSE IF s.val \notin Status3Ds THEN Raised("ValueError", s.rest)
           ELSE Only({ IF ~h.ok THEN h ELSE Position3D(s.val, h)
                       : h \in {ReadFields(s.rest, <<"i1", "i2">>)} })
           : s \in {UnpackInt(b, 1)} })

Component3D(b) == Counted(b, "Item3D")

ItemMarkerError(b) ==
    Only({ IF ~h.ok THEN h
           ELSE Returned([index |-> h.val[1], data |-> <<h.val[2]>>], h.rest)
           : h \in {ReadFields(b, <<"i2", "f">>)} })

ComponentMarkerError(b) == Counted(b, "ItemMarkerError")

\* (status & 0x0100) == 0x0100
is_missing(st) == (st \div 256) % 2 = 1

Component6D(b) ==
    Only({ IF ~h.ok THEN h
           ELSE IF is_missing(h.val[2])
           THEN Returned([port_handle |-> h.val[1], status |-> h.val[2],
                          data |-> <<"MISSING">>], h.rest)
           ELSE Only({ IF ~p.ok THEN p
                       ELSE Returned([port_handle |-> h.val[1],
                                      status |-> h.val[2],
                                      data |-> <<p.val>>], p.rest)
                       : p \in {ReadFields(h.rest, <<"f", "f", "f", "f",
                                                     "f", "f", "f", "f">>)} })
           : h \in {ReadFields(b, <<"i2", "i2">>)} })

\* frame type read and valid: the header fields, then the nested payload
FrameBody(type, b) ==
    Only({ IF ~h.ok THEN h
           ELSE Only({ IF ~p.ok THEN p
                       ELSE Returned([type |-> type, index |-> h.val[1],
                                      status |-> h.val[2],
                                      frame_number |-> h.val[3],
                                      data |-> <<p.val>>], p.rest)
                       : p \in {GeneralBinaryPayload(h.rest)} })
           : h \in {ReadFields(b, <<"i1", "i2", "i4", "i4", "i4">>)} })

FrameItem(b) ==
    Only({ IF ~t.ok THEN t
           ELSE IF t.val \notin FrameTypes THEN Raised("ValueError", t.rest)
           ELSE FrameBody(t.val, t.rest)
           : t \in {UnpackInt(b, 1)} })

\* ComponentImage and ComponentAlert are not decoded here: the payloads
\* below carry tracking data only
ParseOne(kind, b) ==
    CASE kind = "ComponentButton" -> ComponentButton(b)
      [] kind = "Component1D" -> Component1D(b)
      [] kind = "Item3D" -> Item3D(b)
      [] kind = "Component3D" -> Component3D(b)
      [] kind = "ItemMarkerError" -> ItemMarkerError(b)
      [] kind = "ComponentMarkerError" -> ComponentMarkerError(b)
      [] kind = "Component6D" -> Component6D(b)
      [] kind = "FrameItem" -> FrameItem(b)
      [] OTHER -> Raised("NotDecoded", b)

\* the item class DataComponent.parse picks for a component type; for
\* ComponentType.NONE no branch of the loop matches
ItemKind(type) ==
    CASE type = TypeFrame -> "FrameItem"
      [] type = Type1D -> "Component1D"
      [] type = Type3D -> "Component3D"
      [] type = Type6D -> "Component6D"
      [] type = Type3DError -> "ComponentMarkerError"
      [] OTHER -> "other"

\* the except ValueError branch: bytes to skip after type and size
SkipWhole(size) == size
SkipCount(size) == size - 6

UnknownComponent(b) ==
    Only({ IF ~z.ok THEN z
           ELSE Only({ IF ~k.ok THEN k
                       ELSE Returned([type |-> TypeNONE, size |-> z.val,
                                      item_format |-> 0, item_count |-> 0,
                                      data |-> <<>>], k.rest)
                       : k \in {UnpackBytes(z.rest, SkipCount(z.val))} })
           : z \in {UnpackInt(b, 4)} })

\* the component header read without its size field
HeaderNoSize(b) ==
    Only({ IF ~h.ok THEN h ELSE Returned(<<0>> \o h.val, h.rest)
           : h \in {ReadFields(b, <<"i2", "i4">>)} })
ComponentHeader(b) == ReadFields(b, <<"i4", "i2", "i4">>)

KnownComponent(type, b) ==
    Only({ IF ~h.ok THEN h
           ELSE Only({ IF ~d.ok THEN d
                       ELSE Returned([type |-> type, size |-> h.val[1],
                                      item_format |-> h.val[2],
                                      item_count |-> h.val[3],
                                      data |-> d.val], d.rest)
                       : d \in {IF type = TypeNONE THEN Returned(<<>>, h.rest)
                                ELSE Repeat(ItemKind(type), h.rest, h.val[3])} })
           : h \in {ComponentHeader(b)} })

DataComponent(b) ==
    Only({ IF ~t.ok THEN t
           ELSE IF t.val \notin ComponentTypes THEN UnknownComponent(t.rest)
           ELSE KnownComponent(t.val, t.rest)
           : t \in {UnpackInt(b, 2)} })

\* one pass of the loop of GeneralBinaryPayload.parse on the payload p
\* built so far: a component of type NONE is not added
AddComponent(p, b) ==
    Only({ IF ~r.ok THEN r
           ELSE Returned([p EXCEPT !.data =
                            IF r.val.type # TypeNONE THEN Append(@, r.val)
                            ELSE @], r.rest)
           : r \in {DataComponent(b)} })

RECURSIVE Components(_, _, _)
Components(p, b, k) ==
    IF k <= 0 THEN Returned(p, b)
    ELSE Only({ IF ~r.ok THEN r ELSE Components(r.val, r.rest, k - 1)
                : r \in {AddComponent(p, b)} })

PayloadHeader(b) ==
    Only({ IF ~h.ok THEN h
           ELSE Returned([version |-> h.val[1], num_components |-> h.val[2],
                          data |-> <<>>], h.rest)
           : h \in {ReadFields(b, <<"i2", "i2">>)} })

GeneralBinaryPayload(b) ==
    Only({ IF ~h.ok THEN h
           ELSE Components(h.val, h.rest, h.val.num_components)
           : h \in {PayloadHeader(b)} })

\* GeneralBinaryPayload(buffer) step by step: the header, then one
\* DataComponent per step; ccall[2] is the loop variable c
PayloadBegin ==
    /\ ccall = NoCall
    /\ Apply("GeneralBinaryPayload", 0, PayloadHeader(cbuf))

PayloadComponent ==
    /\ ccall[1] = "GeneralBinaryPayload"
    /\ cret.ok
    /\ ccall[2] < cret.val.num_components
    /\ Apply("GeneralBinaryPayload", ccall[2] + 1, AddComponent(cret.val, cbuf))

PayloadDone ==
    /\ ccall[1] = "GeneralBinaryPayload"
    /\ cret.ok
    /\ ccall[2] >= cret.val.num_components

\* payloads as the device builds them
Le16(n) == <<n % 256, n \div 256>>
Le32(n) == <<n % 256, (n \div 256) % 256, (n \div 65536) % 256, n \div 16777216>>
RECURSIVE Flat(_)
Flat(ss) == IF ss = <<>> THEN <<>> ELSE Head(ss) \o Flat(Tail(ss))
FloatHalf == <<0, 0, 0, 63>>
EncData(type, count, body) ==
    Le16(type) \o Le32(12 + Len(body)) \o Le16(0) \o Le32(count) \o body
EncUnknown(code, filler) == Le16(code) \o Le32(6 + Len(filler)) \o filler
EncPayload(cs) == Le16(1) \o Le16(Len(cs)) \o Flat(cs)
EncItem3D == <<0, 0>> \o Le16(1) \o FloatHalf \o FloatHalf \o FloatHalf
EncItemMissing == <<Status3DMissing, 0>> \o Le16(2)
EncPose ==
    FloatHalf \o FloatHalf \o FloatHalf \o FloatHalf
      \o FloatHalf \o FloatHalf \o FloatHalf \o FloatHalf
EncFrame(cs) == <<2, 0>> \o Le16(0) \o Le32(5) \o Le32(0) \o Le32(0) \o EncPayload(cs)
\* a component without items whose size field also counts bytes the layout
\* of its type does not describe
EncPadded(type, pad) ==
    Le16(type) \o Le32(12 + Len(pad)) \o Le16(0) \o Le32(0) \o pad
\* 7 is no value of ComponentType
GbfComponents ==
    { EncData(Type3D, 0, <<>>),
      EncData(Type3D, 1, Le16(1) \o Le16(0)),
      EncData(Type3D, 1, Le16(1) \o Le16(1) \o EncItem3D),
      EncData(Type3D, 1, Le16(1) \o Le16(2) \o EncItemMissing \o EncItem3D),
      EncData(Type6D, 1, Le16(1) \o Le16(0) \o EncPose),
      EncData(Type6D, 1, Le16(1) \o Le16(256)),
      EncData(Type3DError, 1, Le16(1) \o Le16(1) \o Le16(1) \o FloatHalf),
      EncData(Type1D, 1, Le16(1) \o Le16(1) \o <<1>>),
      EncData(TypeNONE, 0, <<>>),
      EncData(TypeFrame, 1, EncFrame(<<>>)),
      EncData(TypeFrame, 1, EncFrame(<<EncData(Type3D, 0, <<>>)>>)),
      EncUnknown(7, <<>>),
      EncUnknown(7, Le16(Type3D)),
      EncUnknown(7, <<1, 0, 0>>),
      EncPadded(Type3D, <<0, 0>>) }
GbfPayloads ==
    {EncPayload(cs) : cs \in UNION {[1..n -> GbfComponents] : n \in 0..MaxComponents}}
\* a reply may also arrive cut short, or with its data CRC after the payload
Truncated(p) == Take(p, Len(p) - 1)

InitGbf ==
    /\ SessionInit
    /\ sent \in GbfPayloads \cup {Truncated(p) : p \in GbfPayloads}
                          \cup {p \o DataCrc : p \in GbfPayloads}
    /\ arrived = 0 /\ taken = 0 /\ buffer = <<>> /\ rxpc = "idle"
    /\ cbuf = sent /\ ccall = NoCall /\ cret = NoRet /\ reply = NoReply

NextGbf == PayloadBegin \/ PayloadComponent

SpecGbf == InitGbf /\ [][NextGbf]_vars

\* ----------------------------------------------------------- capi/bx.py
\* The BX reply decoder.  BX(buffer, options) runs step by step; cret.val is
\* the BX object under construction, cur its BXPortHandle under construction
\* (<<>> is None, <<v>> a value), ccall the position in parse().

\* ReplyOption and HandleStatus
Transformation == 1
ToolAndMarkerInfo == 2
StrayActiveMarker == 4
ToolMarkers == 8
AllTransforms == 2048
StrayPassive == 4096
StrayPassiveExtended == 8192
HandleValid == 1
HandleMissing == 2
HandleDisabled == 4

\* (x & bit) == bit, bit a power of two
HasBit(x, bit) == (x \div bit) % 2 = 1
EveryOption(options, option) == TRUE
\* (self.options & option) > 0
is_option(options, option) == HasBit(options, option)
NeverMissing(st) == FALSE
missing(st) == HasBit(st, HandleMissing)
disabled(st) == HasBit(st, HandleDisabled)

Floats(n) == [i \in 1..n |-> "f"]
CeilDiv(n, d) == (n + d - 1) \div d

\* <Reply Opt 0001 Data> into the handle h
TransformationData(h, b) ==
    Only({ IF ~p.ok THEN p
           ELSE Only({ IF ~t.ok THEN t
                       ELSE Returned([h EXCEPT !.data = <<p.val>>,
                                               !.port_status = <<t.val[1]>>,
                                               !.frame_number = <<t.val[2]>>],
                                     t.rest)
                       : t \in {ReadFields(p.rest, <<"i4", "u4">>)} })
           : p \in {IF missing(h.handle_status) THEN Returned("MISSING", b)
                    ELSE ReadFields(b, Floats(8))} })

\* marker_info[-b-1] & 0x0F, marker_info[-b-1] >> 4 & 0x0F for b in range(10)
Nibbles(mi) ==
    Flat([k \in 1..10 |-> <<mi[11 - k] % 16, (mi[11 - k] \div 16) % 16>>])
BXToolAndMarkerInformation(b) ==
    Only({ IF ~t.ok THEN t
           ELSE Only({ IF ~m.ok THEN m
                       ELSE Returned([tool_info |-> t.val,
                                      data |-> Nibbles(m.val)], m.rest)
                       : m \in {UnpackBytes(t.rest, 10)} })
           : t \in {UnpackUint(b, 1)} })

BXStrayActiveMarker(b, options) ==
    Only({ IF ~s.ok THEN s
           ELSE IF s.val = 1 \/ (s.val = 8 /\ is_option(options, AllTransforms))
           THEN Only({ IF ~p.ok THEN p
                       ELSE Returned([status |-> s.val, data |-> <<p.val>>],
                                     p.rest)
                       : p \in {ReadFields(s.rest, Floats(3))} })
           ELSE Returned([status |-> s.val, data |-> <<"NDPosition">>], s.rest)
           : s \in {UnpackUint(b, 1)} })

\* (oov_bytes[-(byte + 1)] >> bit) & 0x01 for marker m, counted from 0
OutOfVolume(oov, m) == (oov[Len(oov) - (m \div 8)] \div (2 ^ (m % 8))) % 2
\* number of markers, out-of-volume bits, three floats per marker
MarkerList(b) ==
    Only({ IF ~n.ok THEN n
           ELSE Only({ IF ~o.ok THEN o
                       ELSE Only({ IF ~p.ok THEN p
                                   ELSE Returned(
                                     [num_markers |-> n.val,
                                      data |-> [m \in 1..n.val |->
                                         [position |-> SubSeq(p.val, 3 * m - 2, 3 * m),
                                          oov |-> OutOfVolume(o.val, m - 1),
                                          extended_marker_status |-> 0]]],
                                     p.rest)
                                   : p \in {ReadFields(o.rest, Floats(3 * n.val))} })
                       : o \in {UnpackBytes(n.rest, CeilDiv(n.val, 8))} })
           : n \in {UnpackInt(b, 1)} })

BXToolMarkers(b) == MarkerList(b)

\* <Reply Option 2000 Data>: one byte for two markers; the byte of an odd
\* last marker is read and then data[b*2+1] does not exist
ExtendedStatus(s, b) ==
    IF Len(b) < CeilDiv(s.num_markers, 2) THEN Raised("IndexError", <<>>)
    ELSE IF s.num_markers % 2 = 1
    THEN Raised("IndexError", Drop(b, CeilDiv(s.num_markers, 2)))
    ELSE Returned([s EXCEPT !.data = [m \in 1..s.num_markers |->
                     [@[m] EXCEPT !.extended_marker_status =
                        IF m % 2 = 1 THEN (b[(m + 1) \div 2] \div 16) % 16
                        ELSE b[m \div 2] % 16]]],
                  Drop(b, CeilDiv(s.num_markers, 2)))

BXStrayPassiveMarkers(b, options) ==
    Only({ IF ~n.ok THEN n
           ELSE IF n.val <= 0
           THEN Returned([num_markers |-> n.val, data |-> <<>>], n.rest)
           ELSE Only({ IF ~s.ok THEN s
                       ELSE IF is_option(options, StrayPassiveExtended)
                       THEN ExtendedStatus(s.val, s.rest)
                       ELSE s
                       : s \in {MarkerList(b)} })
           : n \in {UnpackInt(b, 1)} })

\* the step's outcome r: the object as the step leaves it, or the exception
BxStep(label, bit, r) ==
    /\ ccall' = IF r.ok THEN <<label, bit>> ELSE <<"raised", 0>>
    /\ cret' = [ok |-> r.ok, val |-> r.val]
    /\ cbuf' = r.rest
    /\ UNCHANGED <<sessVars, rxVars, reply>>

BxAt(label, bit) == ccall = <<label, bit>> /\ cret.ok
Cur == cret.val.cur[1]
SetCur(h) == [cret.val EXCEPT !.cur = <<h>>]
\* self.add_data(BXPortHandle(buffer, self.options))
AddHandle == [cret.val EXCEPT !.data = Append(@, Cur), !.cur = <<>>]

\* self.num_handles = unpack_int(buffer, 1)
BxNumHandles ==
    /\ ccall[1] = "BX"
    /\ \E n \in {UnpackInt(cbuf, 1)} :
         BxStep("handles", 0,
                IF ~n.ok THEN n
                ELSE Returned([options |-> ccall[2], num_handles |-> n.val,
                               data |-> <<>>, cur |-> <<>>,
                               stray_passive |-> <<>>, status |-> <<>>],
                              n.rest))

\* BXPortHandle.parse: handle id and handle status
BxPortHandle ==
    /\ BxAt("handles", 0)
    /\ Len(cret.val.data) < cret.val.num_handles
    /\ \E h \in {ReadFields(cbuf, <<"i1", "i1">>)} :
         BxStep("opt", Transformation,
                IF ~h.ok THEN h
                ELSE Returned(SetCur([handle |-> h.val[1],
                                      handle_status |-> h.val[2],
                                      data |-> <<>>,
                                      port_status |-> <<>>,
                                      frame_number |-> <<>>,
                                      tool_marker_info |-> <<>>,
                                      stray_active_marker |-> <<>>,
                                      markers |-> <<>>]), h.rest))

\* if self.is_option(ReplyOption.Transformation): a disabled handle returns
BxTransformation ==
    /\ BxAt("opt", Transformation)
    /\ IF ~is_option(cret.val.options, Transformation)
       THEN BxStep("opt", ToolAndMarkerInfo, Returned(cret.val, cbuf))
       ELSE IF disabled(Cur.handle_status)
       THEN BxStep("handles", 0, Returned(AddHandle, cbuf))
       ELSE \E t \in {TransformationData(Cur, cbuf)} :
              BxStep("opt", ToolAndMarkerInfo,
                     IF ~t.ok THEN t ELSE Returned(SetCur(t.val), t.rest))

BxToolAndMarkerInfo ==
    /\ BxAt("opt", ToolAndMarkerInfo)
    /\ IF ~is_option(cret.val.options, ToolAndMarkerInfo)
       THEN BxStep("opt", StrayActiveMarker, Returned(cret.val, cbuf))
       ELSE \E t \in {BXToolAndMarkerInformation(cbuf)} :
              BxStep("opt", StrayActiveMarker,
                     IF ~t.ok THEN t
                     ELSE Returned(SetCur([Cur EXCEPT !.tool_marker_info =
                                             <<t.val>>]), t.rest))

BxStrayActive ==
    /\ BxAt("opt", StrayActiveMarker)
    /\ IF ~is_option(cret.val.options, StrayActiveMarker)
       THEN BxStep("opt", ToolMarkers, Returned(cret.val, cbuf))
       ELSE \E t \in {BXStrayActiveMarker(cbuf, cret.val.options)} :
              BxStep("opt", ToolMarkers,
                     IF ~t.ok THEN t
                     ELSE Returned(SetCur([Cur EXCEPT !.stray_active_marker =
                                             <<t.val>>]), t.rest))

\* the last block of the handle: the handle is added to the BX data
BxToolMarkers ==
    /\ BxAt("opt", ToolMarkers)
    /\ IF ~is_option(cret.val.options, ToolMarkers)
       THEN BxStep("handles", 0, Returned(AddHandle, cbuf))
       ELSE \E t \in {BXToolMarkers(cbuf)} :
              BxStep("handles", 0,
                     IF ~t.ok THEN t
                     ELSE Returned([cret.val EXCEPT
                                      !.data = Append(@, [Cur EXCEPT
                                                 !.markers = <<t.val>>]),
                                      !.cur = <<>>], t.rest))

\* if self.is_option(ReplyOption.StrayPassive)
BxStrayPassive ==
    /\ BxAt("handles", 0)
    /\ Len(cret.val.data) >= cret.val.num_handles
    /\ IF ~is_option(cret.val.options, StrayPassive)
       THEN BxStep("status", 0, Returned(cret.val, cbuf))
       ELSE \E t \in {BXStrayPassiveMarkers(cbuf, cret.val.options)} :
              BxStep("status", 0,
                     IF ~t.ok THEN t
                     ELSE Returned([cret.val EXCEPT !.stray_passive =
                                      <<t.val>>], t.rest))

\* self.status = BXSystemStatus(buffer)
BxSystemStatus ==
    /\ BxAt("status", 0)
    /\ \E t \in {UnpackUint(cbuf, 2)} :
         BxStep("done", 0,
                IF ~t.ok THEN t
                ELSE Returned([cret.val EXCEPT !.status = <<t.val>>], t.rest))

\* replies as the device builds them for the options of the request: a
\* disabled handle is its id and its status, the other handles carry one
\* block per option in order of increasing option value
EncTransformation(st) ==
    (IF st = HandleMissing THEN <<>> ELSE EncPose) \o Le32(49) \o Le32(5)
EncToolInfo == <<8>> \o <<51, 51, 51, 51, 51, 51, 51, 51, 3, 67>>
EncStrayActive(st) ==
    IF st = HandleMissing THEN <<2>>
    ELSE <<1>> \o FloatHalf \o FloatHalf \o FloatHalf
EncMarkers(st) ==
    IF st = HandleMissing THEN <<0>>
    ELSE <<1, 1>> \o FloatHalf \o FloatHalf \o FloatHalf
EncHandle(options, id, st) ==
    <<id, st>> \o
    (IF st = HandleDisabled THEN <<>>
     ELSE (IF HasBit(options, Transformation) THEN EncTransformation(st) ELSE <<>>)
       \o (IF HasBit(options, ToolAndMarkerInfo) THEN EncToolInfo ELSE <<>>)
       \o (IF HasBit(options, StrayActiveMarker) THEN EncStrayActive(st) ELSE <<>>)
       \o (IF HasBit(options, ToolMarkers) THEN EncMarkers(st) ELSE <<>>))
\* the stray passive block of n markers, none out of volume; with the
\* extended option marker m carries the 4-bit status m, two markers to a byte
\* with the first in the high nibble
EncNibbles(n) ==
    [k \in 1..CeilDiv(n, 2) |->
        16 * ((2 * k - 1) % 8) + (IF 2 * k <= n THEN (2 * k) % 8 ELSE 0)]
EncStray(options, n) ==
    IF ~HasBit(options, StrayPassive) THEN <<>>
    ELSE IF n = 0 THEN <<0>>
    ELSE <<n>> \o [k \in 1..CeilDiv(n, 8) |-> 0]
           \o Flat([m \in 1..(3 * n) |-> FloatHalf])
           \o (IF HasBit(options, StrayPassiveExtended) THEN EncNibbles(n) ELSE <<>>)
SystemStatusBytes == <<64, 0>>
HandleStatuses == {HandleValid, HandleMissing, HandleDisabled}
EncBX(options, sts, n) ==
    <<Len(sts)>> \o Flat([i \in 1..Len(sts) |-> EncHandle(options, i, sts[i])])
      \o EncStray(options, n) \o SystemStatusBytes
BxOptions ==
    (0..15) \cup {StrayPassive + Transformation, StrayPassive + StrayPassiveExtended}
StatusLists == UNION {[1..n -> HandleStatuses] : n \in 0..MaxBxHandles}

InitBx ==
    /\ SessionInit
    /\ \E o \in BxOptions, sts \in StatusLists, n \in 0..MaxStrayMarkers :
         /\ sent = EncBX(o, sts, n)
         /\ ccall = <<"BX", o>>
    /\ arrived = 0 /\ taken = 0 /\ buffer = <<>> /\ rxpc = "idle"
    /\ cbuf = sent /\ cret = NoRet /\ reply = NoReply

NextBx ==
    \/ BxNumHandles \/ BxPortHandle
    \/ BxTransformation \/ BxToolAndMarkerInfo \/ BxStrayActive \/ BxToolMarkers
    \/ BxStrayPassive \/ BxSystemStatus

SpecBx == InitBx /\ [][NextBx]_vars

\* -------------------------------------------------------- capi/reply.py
\* ASCII replies.  A str is the sequence of its code points, indexed from 0
\* as in the code; a dict is the set of its <<key, value>> pairs.  cret.val is
\* the reply object, with the locals start and sep of do_parse; cbuf is the
\* local buffer of do_parse.
Equals == 61                       \* '='
Error == <<69, 82, 82, 79, 82>>    \* "ERROR"

\* s[i:j]
Slice(s, i, j) == SubSeq(s, i + 1, Min(j, Len(s)))
\* s.find(c, start)
Find(s, c, start) ==
    IF \E i \in start..(Len(s) - 1) : s[i + 1] = c
    THEN CHOOSE i \in start..(Len(s) - 1) :
           s[i + 1] = c /\ \A j \in start..(i - 1) : s[j + 1] # c
    ELSE 0 - 1
\* response[:-5]
WithoutCrc(response) ==
    IF Len(response) > 5 THEN Take(response, Len(response) - 5) ELSE <<>>
startswith(s, p) == Len(s) >= Len(p) /\ Take(s, Len(p)) = p
\* self.data[key] = value
SetItem(d, key, value) == {p \in d : p[1] # key} \cup {<<key, value>>}

ReplyStep(label, val, buf) ==
    /\ ccall' = <<label, 0>>
    /\ cret' = [ok |-> label # "raised", val |-> val]
    /\ cbuf' = buf
    /\ UNCHANGED <<sessVars, rxVars, reply>>

\* receive_response hands an ASCII reply over as a str and a binary frame as
\* a bytearray
IsStr(response) ==
    Len(response) < 2 \/ SubSeq(response, 1, 2) \notin {StartStandard, StartExtended}

\* capi/error.py: the code tables, code -> message (the messages are kept as
\* the pair of the table and the code)
ErrorText == [c \in {<<48, 49>>, <<48, 50>>} |-> <<"ErrorText", c>>]
WarningText == [c \in {<<48, 54>>} |-> <<"WarningText", c>>]

\* the status a reply has when nothing has recognised it
InitialStatusOK == "OK"
\* self.status = NDStatusError() in CAPIReply.__init__
InitialStatus == "ERROR"

\* CAPIReply.parse: a str loses its last five characters and is tested for
\* ERROR; anything else goes to do_parse as it is
ReplyParse ==
    /\ ccall = <<"CAPIReply", 0>>
    /\ IF ~IsStr(sent)
       THEN ReplyStep("do_parse", [status |-> InitialStatus, data |-> sent], cbuf)
       ELSE IF startswith(WithoutCrc(sent), Error)
       THEN IF Slice(WithoutCrc(sent), 5, 7) \in DOMAIN ErrorText
            THEN ReplyStep("error",
                           [status |-> "ERROR",
                            code |-> Slice(WithoutCrc(sent), 5, 7),
                            message |-> ErrorText[Slice(WithoutCrc(sent), 5, 7)],
                            data |-> WithoutCrc(sent)], cbuf)
            ELSE ReplyStep("raised", "KeyError", cbuf)
       ELSE ReplyStep("do_parse",
                      [status |-> InitialStatus, data |-> WithoutCrc(sent)], cbuf)

DoParse(class) == ccall = <<"do_parse", 0>> /\ reply.class = class

Okay == <<79, 75, 65, 89>>                  \* "OKAY"
Warning == <<87, 65, 82, 78, 73, 78, 71>>   \* "WARNING"

\* OKAYReply.do_parse
OkayParse ==
    /\ DoParse("OKAYReply")
    /\ ReplyStep("done",
                 [cret.val EXCEPT !.status = IF cret.val.data = Okay THEN "OK" ELSE @],
                 cbuf)

\* OKAYWARNReply.do_parse; a bytearray has no startswith(str)
OkayWarnParse ==
    /\ DoParse("OKAYWARNReply")
    /\ LET data == cret.val.data
           code == Slice(data, 7, 9)
       IN  IF ~IsStr(sent) THEN ReplyStep("raised", "TypeError", cbuf)
           ELSE IF startswith(data, Okay)
           THEN ReplyStep("done", [cret.val EXCEPT !.status = "OK"], cbuf)
           ELSE IF ~startswith(data, Warning)
           THEN ReplyStep("done", cret.val, cbuf)
           ELSE IF code \in DOMAIN WarningText
           THEN ReplyStep("done",
                          [status |-> "WARNING", code |-> code,
                           message |-> WarningText[code], data |-> data], cbuf)
           ELSE ReplyStep("raised", "KeyError", cbuf)

\* BINReply.parse_header: the start sequence, then the reply length and the
\* header CRC, or the 4-byte reply length
ParseHeader(b) ==
    Only({ IF ~s.ok THEN s
           ELSE IF s.val = UnpackInt(StartStandard, 2).val
           THEN ReadFields(s.rest, <<"i2", "i2">>)
           ELSE IF s.val = UnpackInt(StartExtended, 2).val
           THEN ReadFields(s.rest, <<"i4">>)
           ELSE Raised("NDError", s.rest)
           : s \in {UnpackInt(b, 2)} })

\* BINReply.parse_footer: the data CRC of a standard frame
ParseFooter(b) ==
    IF SubSeq(sent, 1, 2) = StartStandard THEN UnpackInt(b, 2) ELSE Returned(0, b)

\* unpack_int on a str: buffer.pop raises AttributeError, which parse_header
\* turns into NDError; a str shorter than two characters is an IndexError
HeaderOfStr(data) == IF Len(data) < 2 THEN "IndexError" ELSE "NDError"

\* ReplyBX.do_parse up to BX(buffer, self._options)
BxReplyHeader ==
    /\ DoParse("ReplyBX")
    /\ IF IsStr(sent)
       THEN ReplyStep("raised", HeaderOfStr(cret.val.data), cbuf)
       ELSE \E h \in {ParseHeader(cret.val.data)} :
              IF ~h.ok THEN ReplyStep("raised", h.val, h.rest)
              ELSE /\ ccall' = <<"BX", reply.options>>
                   /\ cbuf' = h.rest
                   /\ UNCHANGED <<sessVars, rxVars, cret, reply>>

\* ReplyBX.do_parse after BX(): parse_footer, self.status = NDStatusOK()
BxReplyFooter ==
    /\ BxAt("done", 0)
    /\ reply.class = "ReplyBX"
    /\ \E f \in {ParseFooter(cbuf)} :
         IF ~f.ok THEN ReplyStep("raised", f.val, f.rest)
         ELSE ReplyStep("replied", [status |-> "OK", data |-> cret.val], f.rest)

\* ParametersReply.do_parse up to the loop
ParamsBegin ==
    /\ DoParse("ParametersReply")
    /\ ReplyStep("loop",
                 [status |-> cret.val.status, data |-> {}, start |-> 0,
                  sep |-> Find(cret.val.data, Equals, 0)],
                 cret.val.data)

\* buffer[sep + 1:next_item_idx]
ValueFromSep(b, sep, next) == Slice(b, sep, next)
Value(b, sep, next) == Slice(b, sep + 1, next)

\* one pass of `while sep > 0`
ParamsEntry ==
    /\ ccall = <<"loop", 0>>
    /\ cret.val.sep > 0
    /\ LET start == cret.val.start
           sep == cret.val.sep
           user_parameter == Slice(cbuf, start, sep)
           next_item_idx == Find(cbuf, LF, sep)
       IN  IF next_item_idx > 0
           THEN ReplyStep("loop",
                  [cret.val EXCEPT
                     !.data = SetItem(@, user_parameter,
                                      Value(cbuf, sep, next_item_idx)),
                     !.start = next_item_idx + 1,
                     !.sep = Find(cbuf, Equals, next_item_idx + 1)], cbuf)
           ELSE ReplyStep("loop",
                  [cret.val EXCEPT
                     !.data = SetItem(@, user_parameter,
                                      Value(cbuf, sep, Len(cbuf))),
                     !.sep = 0], cbuf)

\* self.status = NDStatusOK()
ParamsDone ==
    /\ ccall = <<"loop", 0>>
    /\ cret.val.sep <= 0
    /\ ReplyStep("done", [status |-> "OK", data |-> cret.val.data], cbuf)

\* replies to GET: entries name=value, LF between them and, or not, after
\* the last; then the four checksum characters and CR
ParamNames == {<<88>>, <<80, 46, 88>>, Error}
ParamValues == {<<>>, <<49>>, <<49, 50>>}
Entries == [name : ParamNames, value : ParamValues]
EntryLists == UNION {[1..n -> Entries] : n \in 1..MaxEntries}
Crc16Chars == <<52, 65, 70, 48>>
EncEntries(es, lastLF) ==
    Flat([i \in 1..Len(es) |->
            es[i].name \o <<Equals>> \o es[i].value
              \o (IF i < Len(es) \/ lastLF THEN <<LF>> ELSE <<>>)])
EncReply(es, lastLF) == EncEntries(es, lastLF) \o Crc16Chars \o <<CR>>

InitReply ==
    /\ SessionInit
    /\ sent \in {EncReply(es, t) : es \in EntryLists, t \in BOOLEAN}
    /\ arrived = 0 /\ taken = 0 /\ buffer = <<>> /\ rxpc = "idle"
    /\ cbuf = <<>> /\ ccall = <<"CAPIReply", 0>> /\ cret = NoRet
    /\ reply = [class |-> "ParametersReply", options |-> 0]

NextReply == ReplyParse \/ ParamsBegin \/ ParamsEntry \/ ParamsDone

SpecReply == InitReply /\ [][NextReply]_vars

\* ReplyBX2.do_parse: header, GeneralBinaryPayload(buffer), footer, status OK
Bx2Parse ==
    /\ DoParse("ReplyBX2")
    /\ IF IsStr(sent)
       THEN ReplyStep("raised", HeaderOfStr(cret.val.data), cbuf)
       ELSE \E h \in {ParseHeader(cret.val.data)} :
              IF ~h.ok THEN ReplyStep("raised", h.val, h.rest)
              ELSE \E g \in {GeneralBinaryPayload(h.rest)} :
                     IF ~g.ok THEN ReplyStep("raised", g.val, g.rest)
                     ELSE \E f \in {ParseFooter(g.rest)} :
                            IF ~f.ok THEN ReplyStep("raised", f.val, f.rest)
                            ELSE ReplyStep("replied",
                                           [status |-> "OK", data |-> g.val], f.rest)

\* every reply class on every response: ERROR replies with codes in and out
\* of the table, the other ASCII replies, BX frames and GBF frames
ReplyClasses ==
    {"OKAYReply", "OKAYWARNReply", "ParametersReply", "ReplyBX", "ReplyBX2"}
AsciiBodies ==
    { Error \o <<48, 49>>, Error \o <<48, 50>>, Error \o <<90, 90>>, Error,
      Okay, Warning \o <<48, 54>>, Warning \o <<90, 90>>,
      <<88, Equals, 49>>, <<49>>, <<>> }
BinaryFrames ==
    { StandardFrame(EncBX(o, <<HandleValid>>, 1)) :
          o \in {15, StrayPassive + Transformation} }
    \cup { StandardFrame(EncPayload(<<>>)),
           ExtendedFrame(EncPayload(<<EncData(Type3D, 0, <<>>)>>)),
           Take(StandardFrame(EncPayload(<<>>)), 9) }
Responses == {a \o Crc16Chars \o <<CR>> : a \in AsciiBodies} \cup BinaryFrames

InitStatus ==
    /\ SessionInit
    /\ sent \in Responses
    /\ arrived = 0 /\ taken = 0 /\ buffer = <<>> /\ rxpc = "idle"
    /\ cbuf = <<>> /\ ccall = <<"CAPIReply", 0>> /\ cret = NoRet
    /\ \E c \in ReplyClasses, o \in {15, StrayPassive + Transformation} :
         reply = [class |-> c, options |-> IF c = "ReplyBX" THEN o ELSE 0]

NextStatus ==
    \/ ReplyParse \/ OkayParse \/ OkayWarnParse
    \/ ParamsBegin \/ ParamsEntry \/ ParamsDone
    \/ BxReplyHeader \/ NextBx \/ BxReplyFooter \/ Bx2Parse

SpecStatus == InitStatus /\ [][NextStatus]_vars

\* ------------------------------------------------------------- claims
\* C1: whatever fails in one fetch-and-decode step of the polling thread
\* (transport error, unrecognised start sequence, truncated frame, device
\* ERROR reply), the thread does not end with an exception: the failure goes
\* to the handler of _track, which sets the error status and publishes ERROR.
C1_FetchFailureHandled ==
    \A t \in Threads : tpc[t] # "crashed"

\* C2: while Tracking is true the polling thread stays alive through
\* pause_tracking() and unpause_tracking(): it leaves its loop only once
\* Tracking is false, so the same loop fetches again after the unpause.
C2_PauseKeepsThread ==
    [][\A t \in Threads : (tpc[t] = "loop" /\ tpc'[t] = "dead") => ~tracking]_vars

\* C3: when start_tracking() has returned successfully Tracking is true, so
\* the next call of the calling thread observes it, however the new polling
\* thread is scheduled.
C3_TrackingOnReturn ==
    fgPrev = <<"start_tracking", "ok">> => tracking

\* C8: a stop_tracking() called right after a stop_tracking() that returned
\* does nothing: it tests Tracking and returns, sending no command, publishing
\* no event and changing no flag, however the polling thread is scheduled.
C8_StopIdempotent ==
    [][(At("st_check") /\ fgOp = "stop_tracking" /\ fgPrev = <<"stop_tracking", "ok">>
        /\ fg' # fg) => fg' = <<>>]_vars

\* C10: when a step of initialize() fails (INIT answered by ERROR, or a port
\* handle cannot be freed, initialised or enabled), the call raises and the
\* session is Connected afterwards: is_connected() true, is_initialized() false.
C10_FailedInitializeConnected ==
    [][(fgOp = "initialize" /\ istage > 0 /\ fg' = <<>>)
        => (connected' /\ ~initialized')]_vars

\* a polling thread starts an exchange or a streamed read on the connection
Fetches(t) == tpc[t] \in {"request", "stream"} /\ tpc'[t] \in {"recv", "recv_stream"}

\* C7: disconnect() called while Tracking is true stops tracking completely
\* before it closes the connection: when the close is done the session is Idle,
\* Tracking, Streaming and Recording are false, and every polling thread has
\* ended, so none touches the connection after the close.
C7_DisconnectStopsFirst ==
    [][(At("di_close_t") /\ fg' = <<>>)
        => /\ ~connected' /\ ~initialized'
           /\ ~tracking' /\ ~streaming' /\ ~recording'
           /\ \A t \in Threads : tpc'[t] \in {"none", "dead", "crashed"}]_vars

\* C9: a stop_tracking() that found Tracking true sends TSTOP only after
\* recording and streaming are stopped, Tracking is cleared and the polling
\* thread has ended; no polling thread fetches once TSTOP has been sent.
C9_StopOrder ==
    [][/\ (At("st_tstop") /\ fg' # fg)
            => /\ ~recording /\ ~streaming /\ ~tracking
               /\ \A t \in Threads : ~Alive(t)
       /\ (At("st_tstop_r") \/ At("st_publish"))
            => \A t \in Threads : ~Fetches(t)]_vars

\* C4: start_recording() succeeds only when Tracking is true and at least one
\* tool is tracked, and then the sink is open and Recording is true; otherwise
\* it raises USE_ERROR, opens no sink and leaves Recording as it was.
C4_RecordingNeedsTools ==
    [][(fgOp = "start_recording" /\ fg # <<>> /\ fg' = <<>>)
        => IF tracking /\ num_tools > 0
           THEN fgPrev' = <<"start_recording", "ok">> /\ recording' /\ recOpen'
           ELSE /\ fgPrev' = <<"start_recording", "USE_ERROR">>
                /\ UNCHANGED <<recording, recOpen>>]_vars

\* who is inside an exchange or a read on the connection
InExchange ==
    {t \in Threads : commLock = t}
        \cup {x \in {Fg} : commLock = Fg \/ At("gl_body")}

\* C6: at most one thread at a time is inside a send/receive exchange or a
\* read on the connection.
C6_OneExchange ==
    Cardinality(InExchange) <= 1

\* what a reader has read so far is what the last completed update left
ReadMatches(r) ==
    /\ Len(rval[r]) >= 1 => rval[r][1] = committed.frame_num
    /\ Len(rval[r]) >= 2 => rval[r][2] = committed.tools
    /\ Len(rval[r]) >= 3 => rval[r][3] = committed.markers

C11_RetryThenConnected ==
    [][/\ (At("co_socket") /\ fg' = <<>>) => attempt = NumRetries - 1
       /\ (At("co_socket") /\ fg' # fg /\ linkUp')
             => (fg' = <<"co_done">> /\ attempt' = attempt)
       /\ (At("co_done") /\ fg' = <<>>)
             => (/\ connected' /\ status' = status
                 /\ fgPrev' = <<"connect", "ok">>)]_vars

\* the third attempt has succeeded after two failures
C11_Witness == At("co_done") /\ attempt = NumRetries - 1 /\ linkUp

\* C12: while Streaming is true the polling thread sends no request command:
\* no polling thread passes from "request" to the exchange while the
\* streaming flag is set.
C12_NoRequestWhileStreaming ==
    [][\A t \in Threads :
         (tpc[t] = "request" /\ tpc'[t] = "recv") => ~streaming]_vars

\* C13: in every reachable state Recording implies Tracking and Streaming
\* implies Tracking.
C13_FlagsNeedTracking == (recording => tracking) /\ (streaming => tracking)

\* both flags set by successful calls while the session is tracking
C13_Witness == recording /\ streaming /\ fgPrev = <<"start_streaming", "ok">>

\* C14: in every reachable state each of Tracking, Streaming, Paused and
\* Recording is true only if the session is Initialized.
C14_FlagsNeedInitialized ==
    (tracking \/ streaming \/ paused \/ recording) => initialized

\* C15: a polling thread modifies the snapshot (frame number, tools, stray
\* markers) only in update() of a reply that was decoded with status OK; a
\* fetch that fails to decode or returns a device ERROR reply changes nothing.
C15_SnapshotAfterDecode ==
    [][\A t \in Threads :
         (tpc'[t] # tpc[t] /\ snapVars' # snapVars)
            => tpc[t] \in {"update", "update_frame", "update_tools"}]_vars

\* C16: while a polling thread is running it is the only writer of the
\* snapshot: a step of the foreground caller changes the tool list, the
\* stray markers or the frame number only while no polling thread is alive.
C16_ThreadOnlyWriter ==
    [][(fg' # fg /\ snapVars' # snapVars)
          => \A t \in Threads : ~Alive(t)]_vars

\* C17: at most one polling thread exists per session at any time.
C17_OnePollingThread == Cardinality({t \in Threads : Alive(t)}) <= 1

\* C18: when reset() returns successfully Tracking, Streaming and Recording
\* are false, and the RESET command was sent with tracking stopped (no
\* polling thread alive).
C18_ResetStopsTracking ==
    [][/\ (fgOp = "reset" /\ At("rs_done") /\ fg' = <<>>)
            => (~tracking' /\ ~streaming' /\ ~recording')
       /\ (At("rs_send") /\ commLock' = Fg)
            => \A t \in Threads : ~Alive(t)]_vars

\* C19: initialize(), reset() and start_tracking() on a session that is not
\* Connected, and start_streaming() and start_recording() on a session that is
\* not Tracking, fail with USE_ERROR at their first check: the call begins
\* without touching anything, and the check raises USE_ERROR with nothing
\* sent, no thread spawned and every session flag unchanged.
C19_UseError ==
    [][/\ (FgIdle /\ fg' # fg)
            => UNCHANGED <<flagVars, connVars, commLock, thrVars, status>>
       /\ (/\ fg' # fg
           /\ \/ (At("in_assert") \/ At("rs_assert") \/ At("sk_assert")) /\ ~connected
              \/ (At("ss_assert") \/ At("sr_assert")) /\ ~tracking)
            => /\ fg' = <<>>
               /\ fgPrev' = <<fgOp, "USE_ERROR">>
               /\ UNCHANGED <<flagVars, connVars, commLock, thrVars, status>>]_vars

\* start_recording() has failed on a connected, initialized session
C19_Witness ==
    /\ fgPrev = <<"start_recording", "USE_ERROR">>
    /\ connected /\ initialized /\ ~recording /\ commLock = NoOwner

\* C20: when the stream begins with the standard-binary start sequence,
\* receive_response returns the start bytes, the length, the header checksum,
\* `length` payload bytes and the data checksum, 8 + length bytes in wire
\* order, and has consumed no byte beyond them.
C20_StandardFrame ==
    (rxpc = "returned" /\ SubSeq(sent, 1, 2) = StartStandard)
       => /\ buffer = SubSeq(sent, 1, 8 + Length16(sent))
          /\ taken = 8 + Length16(sent)

\* C21: when the stream begins with the extended-binary start sequence,
\* receive_response returns the start bytes, the 4-byte length and `length`
\* payload bytes, 6 + length bytes in wire order, and has consumed no byte of
\* what follows the frame.
C21_ExtendedFrame ==
    (rxpc = "returned" /\ SubSeq(sent, 1, 2) = StartExtended)
       => /\ buffer = SubSeq(sent, 1, 6 + Length32(sent))
          /\ taken = 6 + Length32(sent)

\* C22: when the stream begins with the stream-wrapper start sequence,
\* receive_response consumes exactly the wrapper (start bytes, ID length, ID,
\* header checksum: 6 + ID length bytes) before it starts again from an empty
\* buffer, and what it returns is the complete frame that follows the wrapper.
C22_StreamWrapper ==
    SubSeq(sent, 1, 2) = StartStream
       => /\ (rxpc = "loop" /\ buffer = <<>> /\ taken > 0)
                => taken = 6 + Length16(sent)
          /\ rxpc = "returned"
                => buffer = SubSeq(sent, 7 + Length16(sent), Len(sent))

\* C23: a read timeout at any point while a reply is being received is
\* retried: receive_response never leaves with socket.timeout.
C23_TimeoutRetried == rxpc # "timeout"

\* the bytes the read made last needs from the buffer it was given
Needs(b, c) ==
    CASE c[1] \in {"unpack_bytes", "unpack_char", "unpack_int", "unpack_uint"} -> c[2]
      [] c[1] = "unpack_float" -> 4
      [] c[1] = "unpack_string" ->
            IF NewlineAt(b) = 0 THEN Len(b) + 1 ELSE NewlineAt(b)
      [] OTHER -> 0

\* C30: a byte-cursor read that needs more bytes than remain fails with an
\* error and leaves the buffer as it was; a successful read removes exactly
\* the requested bytes from the front of the buffer.
C30_AllOrNothing ==
    [][/\ Needs(cbuf, ccall') > Len(cbuf) => (~cret'.ok /\ cbuf' = cbuf)
       /\ cret'.ok => cbuf' = Drop(cbuf, Needs(cbuf, ccall'))]_vars

\* C24: a DataComponent whose type code is no ComponentType and whose
\* declared size S covers it (6 <= S <= bytes left) takes exactly S bytes from
\* the buffer, the 2-byte type, the 4-byte size and S-6 more, and adds
\* nothing to the payload; and a payload that starts with such a component
\* decodes to the same components as the payload without it.
TypeCode(b) == b[1] + 256 * b[2]
UnknownAhead(b) ==
    /\ Len(b) >= 6
    /\ TypeCode(b) \notin ComponentTypes
    /\ Length32(b) >= 6
    /\ Len(b) >= Length32(b)
Payload(b) == Drop(b, 4)
WithoutFirst(b) ==
    Take(b, 2) \o Le16(TypeCode(Drop(b, 2)) - 1)
      \o Drop(Payload(b), Length32(Payload(b)))
C24_Resynchronised ==
    [][/\ (PayloadComponent /\ UnknownAhead(cbuf))
            => /\ cret'.ok
               /\ cbuf' = Drop(cbuf, Length32(cbuf))
               /\ cret'.val.data = cret.val.data
       /\ (PayloadDone' /\ UnknownAhead(Payload(sent)))
            => cret'.val.data = GeneralBinaryPayload(WithoutFirst(sent)).val.data
      ]_vars
C24_Witness ==
    /\ PayloadDone
    /\ UnknownAhead(Payload(sent))
    /\ Length32(Payload(sent)) > 6
    /\ cret.val.num_components = 2
    /\ Len(cret.val.data) = 1
    /\ cret.val.data[1].type = Type3D
    /\ cret.val.data[1].item_count = 1
    /\ cbuf = <<>>

\* C29: a payload with version 1, component count 1 and one 3D data
\* component whose item count is 0 decodes to one component without
\* children; the decoder takes the 16 header bytes (version 2, count 2,
\* type 2, size 4, item format 2, item count 4) and no byte after them.
ItemCount(b) == ((b[16] * 256 + b[15]) * 256 + b[14]) * 256 + b[13]
ScenarioB(b) ==
    /\ Len(b) >= 16
    /\ TypeCode(b) = 1
    /\ TypeCode(Drop(b, 2)) = 1
    /\ TypeCode(Payload(b)) = Type3D
    /\ ItemCount(b) = 0
Decoded == ccall[1] = "GeneralBinaryPayload" /\ ccall[2] >= 1
C29_EmptyComponent ==
    (ScenarioB(sent) /\ Decoded)
        => /\ PayloadDone
           /\ Len(cret.val.data) = 1
           /\ cret.val.data[1].type = Type3D
           /\ cret.val.data[1].data = <<>>
           /\ cbuf = Drop(sent, 16)
\* C29 as stated: the header taken is 2+2+2+2+4 = 12 bytes
C29_TwelveHeaderBytes ==
    (ScenarioB(sent) /\ Decoded) => cbuf = Drop(sent, 12)
C29_Witness ==
    /\ ScenarioB(sent)
    /\ PayloadDone
    /\ ccall[2] = 1
    /\ Len(cret.val.data) = 1
    /\ Len(sent) = 18
    /\ cbuf = DataCrc

\* C25: for every option bitmask over the per-handle options and every
\* handle that is not Disabled, the blocks the decoder reads for the handle
\* are exactly the blocks of the bits set, read in ascending bit order: the
\* handle decodes to the values the reply carries for it (checked for the
\* handles up to the first Disabled one, where the reply is read in step).
BxObject == ccall[1] \in {"handles", "opt", "status", "done"} /\ cret.ok
NoneDisabled(hs) == \A j \in 1..Len(hs) : ~HasBit(hs[j].handle_status, HandleDisabled)
HandleBits == {Transformation, ToolAndMarkerInfo, StrayActiveMarker, ToolMarkers}
BitsSet(options) == {k \in HandleBits : HasBit(options, k)}
BlocksRead(h) ==
    {k \in HandleBits :
       \/ k = Transformation /\ h.data # <<>>
       \/ k = ToolAndMarkerInfo /\ h.tool_marker_info # <<>>
       \/ k = StrayActiveMarker /\ h.stray_active_marker # <<>>
       \/ k = ToolMarkers /\ h.markers # <<>>}
Half == <<"float", FloatHalf>>
Threes(n) == [i \in 1..n |-> 3]
ExpectedHandle(options, id, st) ==
    [handle |-> id,
     handle_status |-> st,
     data |-> IF ~HasBit(options, Transformation) THEN <<>>
              ELSE IF st = HandleMissing THEN <<"MISSING">>
              ELSE <<<<Half, Half, Half, Half, Half, Half, Half, Half>>>>,
     port_status |-> IF HasBit(options, Transformation) THEN <<49>> ELSE <<>>,
     frame_number |-> IF HasBit(options, Transformation) THEN <<5>> ELSE <<>>,
     tool_marker_info |->
        IF HasBit(options, ToolAndMarkerInfo)
        THEN <<[tool_info |-> 8, data |-> <<3, 4, 3, 0>> \o Threes(16)]>>
        ELSE <<>>,
     stray_active_marker |->
        IF ~HasBit(options, StrayActiveMarker) THEN <<>>
        ELSE IF st = HandleMissing
        THEN <<[status |-> 2, data |-> <<"NDPosition">>]>>
        ELSE <<[status |-> 1, data |-> <<<<Half, Half, Half>>>>]>>,
     markers |->
        IF ~HasBit(options, ToolMarkers) THEN <<>>
        ELSE IF st = HandleMissing THEN <<[num_markers |-> 0, data |-> <<>>]>>
        ELSE <<[num_markers |-> 1,
                data |-> <<[position |-> <<Half, Half, Half>>, oov |-> 1,
                            extended_marker_status |-> 0]>>]>>]
C26_DisabledOnlyHeader ==
    [][(/\ BxObject
        /\ ccall[1] = "opt"
        /\ HasBit(Cur.handle_status, HandleDisabled)
        /\ NoneDisabled(cret.val.data))
          => (cret'.ok /\ cbuf' = cbuf)]_vars

\* C27: with the Transformation option, the step that reads the
\* transformation data of a Missing handle sets the pose to missing, takes
\* the 4-byte port status and the 4-byte frame number, 8 bytes in all, and
\* goes on to the next block.
C27_MissingPose ==
    [][(/\ BxAt("opt", Transformation)
        /\ HasBit(cret.val.options, Transformation)
        /\ HasBit(Cur.handle_status, HandleMissing)
        /\ ~HasBit(Cur.handle_status, HandleDisabled)
        /\ Len(cbuf) >= 8)
          => /\ cret'.ok
             /\ ccall' = <<"opt", ToolAndMarkerInfo>>
             /\ cbuf' = Drop(cbuf, 8)
             /\ Cur'.data = <<"MISSING">>
             /\ Cur'.port_status = <<Int32(Take(cbuf, 4))>>
             /\ Cur'.frame_number = <<Uint32(SubSeq(cbuf, 5, 8))>>]_vars
C27_Witness ==
    /\ BxAt("opt", ToolAndMarkerInfo)
    /\ HasBit(cret.val.options, Transformation)
    /\ Cur.handle_status = HandleMissing
    /\ Cur.data = <<"MISSING">>
    /\ Cur.port_status = <<49>>
    /\ Cur.frame_number = <<5>>

\* C28: an ASCII reply of one or more entries name=value separated by LF,
\* with distinct names and a body that does not begin with ERROR, followed
\* by the checksum characters and CR, decodes without an exception to
\* status OK and the mapping with exactly the pairs name -> value.
Pairs(es) == {<<es[i].name, es[i].value>> : i \in 1..Len(es)}
DistinctNames(es) == \A i, j \in 1..Len(es) : es[i].name = es[j].name => i = j
DecodesTo(es) ==
    /\ ccall[1] \notin {"error", "raised"}
    /\ ccall[1] = "done" => (cret.val.status = "OK" /\ cret.val.data = Pairs(es))
C28_NameValuePairs ==
    \A es \in EntryLists, t \in BOOLEAN :
      (sent = EncReply(es, t) /\ DistinctNames(es) /\ es[1].name # Error)
        => DecodesTo(es)
\* C28 as stated: any names that are non-empty and free of '=' and LF
C28_AnyNames ==
    \A es \in EntryLists, t \in BOOLEAN : sent = EncReply(es, t) => DecodesTo(es)
C28_Witness ==
    /\ ccall[1] = "done"
    /\ cret.val.status = "OK"
    /\ cret.val.data = {<<<<80, 46, 88>>, <<49, 50>>>>, <<Error, <<>>>>}

\* the stream begins with an ASCII reply: its first two bytes are none of the
\* start sequences
AsciiAhead ==
    SubSeq(sent, 1, 2) \notin {StartStandard, StartExtended, StartStream}

\* the position of the first CR that is not the very first byte (0 if none)
FirstCR(b) ==
    IF \E i \in 2..Len(b) : b[i] = CR
    THEN CHOOSE i \in 2..Len(b) : b[i] = CR /\ \A j \in 2..(i - 1) : b[j] # CR
    ELSE 0

KnownAhead(b) == Len(b) >= 6 /\ TypeCode(b) \in ComponentTypes

\* C31: when the decoder has decoded a data component of a recognised type,
\* the bytes it took for the component are the bytes its size field declares
\* (the size counts the component from its type code on, as the S - 6 skip of
\* an unrecognised component shows), so the next component is read from the
\* offset the size implies.
C31_SizeConsumed ==
    [][(PayloadComponent /\ KnownAhead(cbuf) /\ cret'.ok)
          => cbuf' = Drop(cbuf, Length32(cbuf))]_vars

\* the unsigned and the two's-complement value of bytes taken little-endian
RECURSIVE UnsignedLE(_)
UnsignedLE(bs) == IF bs = <<>> THEN 0 ELSE Head(bs) + 256 * UnsignedLE(Tail(bs))
RECURSIVE SignedLE(_)
SignedLE(bs) ==
    IF Len(bs) = 1 THEN (IF bs[1] >= 128 THEN bs[1] - 256 ELSE bs[1])
    ELSE Head(bs) + 256 * SignedLE(Tail(bs))

\* C34: for n in 1..4 unpack_int returns the two's-complement value of the
\* next n bytes taken little-endian (FF FF read with n = 2 is -1) and
\* unpack_uint returns their unsigned little-endian value.
C34_IntegerValues ==
    [][/\ (CallUnpackInt /\ cret'.ok)
            => cret'.val = SignedLE(Take(cbuf, ccall'[2]))
       /\ (CallUnpackUint /\ cret'.ok)
            => cret'.val = UnsignedLE(Take(cbuf, ccall'[2]))]_vars

\* the request asked for the stray passive markers with their extended status
BothStrayOptions(options) ==
    HasBit(options, StrayPassive) /\ HasBit(options, StrayPassiveExtended)

\* the bytes of a stray passive block of n markers with the extended status
StrayBlockBytes(n) == 1 + CeilDiv(n, 8) + 12 * n + CeilDiv(n, 2)

\* C33: with the stray-passive and the extended option both requested, a
\* stray block reporting N >= 1 markers (N odd or even) decodes to N markers,
\* marker m carrying the 4-bit status the reply holds for it, and takes
\* 1 + ceil(N/8) + 12*N + ceil(N/2) bytes, leaving the 2-byte system status
\* to be read next.
C33_ExtendedStray ==
    [][(BxStrayPassive /\ BothStrayOptions(cret.val.options) /\ cbuf[1] >= 1)
          => /\ ccall'[1] = "status"
             /\ cbuf' = Drop(cbuf, StrayBlockBytes(cbuf[1]))
             /\ cbuf' = SystemStatusBytes
             /\ Len(cret'.val.stray_passive[1].data) = cbuf[1]
             /\ \A m \in 1..cbuf[1] :
                   cret'.val.stray_passive[1].data[m].extended_marker_status = m % 8
      ]_vars

\* the response is an ASCII reply whose body is ERROR and a code of the table
ErrorReply ==
    /\ IsStr(sent)
    /\ startswith(WithoutCrc(sent), Error)
    /\ Slice(WithoutCrc(sent), 5, 7) \in DOMAIN ErrorText

\* the constructor has returned a Reply
Constructed ==
    \/ ccall[1] \in {"error", "replied"}
    \/ ccall[1] = "done" /\ reply.class \notin {"ReplyBX", "ReplyBX2"}

\* the parser of the reply's class has run to its end on the response
Recognised ==
    CASE reply.class = "OKAYReply" -> ccall[1] = "done" /\ cret.val.data = Okay
      [] reply.class = "OKAYWARNReply" ->
            /\ ccall[1] = "done"
            /\ \/ startswith(cret.val.data, Okay)
               \/ startswith(cret.val.data, Warning)
      [] reply.class = "ParametersReply" -> ccall[1] = "done"
      [] OTHER -> ccall[1] = "replied"

\* C35: for every reply class, the binary ones included, an ASCII reply
\* whose body is ERROR and a code of the error table is decoded without an
\* exception and without do_parse into a Reply of status ERROR with that code
\* and the message of the table; and every Reply constructed has one status
\* (OK, WARNING or ERROR), which is ERROR unless the parser of its class has
\* recognised the response.
C35_ErrorReplies ==
    /\ ErrorReply
         => /\ ccall[1] \in {"CAPIReply", "error"}
            /\ ccall[1] = "error"
                  => /\ cret.ok
                     /\ cret.val.status = "ERROR"
                     /\ cret.val.code = Slice(WithoutCrc(sent), 5, 7)
                     /\ cret.val.message = ErrorText[cret.val.code]
    /\ Constructed
         => /\ cret.ok
            /\ cret.val.status \in {"OK", "WARNING", "ERROR"}
            /\ cret.val.status # "ERROR" => Recognised

\* ReplyBX constructed from the reply ERROR01 has status ERROR, code 01
C35_Witness ==
    /\ reply.class = "ReplyBX"
    /\ sent = Error \o <<48, 49>> \o Crc16Chars \o <<CR>>
    /\ ccall[1] = "error"
    /\ cret.val.status = "ERROR" /\ cret.val.code = <<48, 49>>

\* an exchange of the port-handle registry: every exchange after INIT
RegistryStage(n) == n > 1

\* C36: the registry commands of initialize() go out one at a time, each
\* after the reply to the one before; and when the reply to one of them is
\* ERROR the call fails there: it does not go on to a further command or to
\* its end.
C36_RegistryStopsOnError ==
    [][/\ (InSend /\ commLock' = Fg) => commLock = NoOwner
       /\ (InRecv /\ RegistryStage(istage)) => cret'.val # <<"ERROR">>]_vars

\* C37: when connect() has failed after its last transport attempt the
\* transport does not report itself connected and the session is not
\* Connected; and the session becomes Connected only by a connect() whose
\* transport attempt succeeded.
C37_FailedConnect ==
    [][/\ fgPrev' = <<"connect", "COM_ERROR">> => (~connOpen' /\ ~connected')
       /\ (~connected /\ connected') => linkUp']_vars

\* whoever may own a lock
LockOwners == Threads \cup {Fg} \cup Readers

\* C38: nobody holds the communication lock and the snapshot lock together;
\* a polling thread that invokes the listeners holds neither; and nobody
\* waits for one of the two locks while holding the other (a polling thread
\* about to send or to read the stream holds no snapshot lock, one about to
\* update or to notify holds no communication lock, the foreground caller
\* never holds the snapshot lock and a reader never the communication lock),
\* so the two locks cannot be waited for in a cycle.
C38_LocksApart ==
    /\ \A o \in LockOwners : ~(commLock = o /\ dataLock = o)
    /\ dataLock # Fg /\ commLock \notin Readers
    /\ \A t \in Threads :
         /\ tpc[t] = "notify" => (commLock # t /\ dataLock # t)
         /\ tpc[t] \in {"request", "stream"} => dataLock # t
         /\ tpc[t] \in {"update", "updateERROR"} => commLock # t

\* a polling thread is about to invoke the listeners while a reader holds
\* the snapshot lock and a command holds the communication lock
C38_Witness ==
    /\ \E t \in Threads : tpc[t] = "notify"
    /\ dataLock \in Readers
    /\ commLock # NoOwner

\* C39: whatever stop_recording() does meanwhile, the recording step of a
\* fetch writes only to an open file and does not fail: once it has found the
\* file open, the file is open at each step of the write and the step ends
\* with the frame written, neither in the error handler of _track nor with
\* an exception that ends the thread.
C39_WriteWhileOpen ==
    [][\A t \in Threads :
         (Record(t) /\ tpc[t] # "record")
            => (recOpen /\ tpc'[t] \notin {"error", "crashed"})]_vars

\* C40: a stop_tracking() that has found Tracking true returns (or raises):
\* the polling thread ends, join() comes back and the call is over.
C40_StopReturns ==
    (fgOp = "stop_tracking" /\ At("st_rec")) ~> (fgOp # "stop_tracking")

====
